---------------------------- MODULE Spec2Model ----------------------------
(***************************************************************************)
(* Model of the agent orchestration server:                                *)
(*   - the SSE streaming endpoint  POST /agents/supervisor/stream          *)
(*     (src/src/routes/agents.ts 533-654) together with the parts of       *)
(*     RealtimeAudioService it drives (src/src/agents/supervisorAgent.ts   *)
(*     500-674);                                                           *)
(*   - supervisorAgent.run with its audio normalisation, routing           *)
(*     classification and sub-agent dispatch                               *)
(*     (src/src/agents/supervisorAgent.ts 83-322, ragAgent.ts,             *)
(*     directAgent.ts).                                                    *)
(* Text is modelled as a sequence of characters / tokens so that trim,     *)
(* startsWith, slice and join are computed, not assumed.                   *)
(***************************************************************************)
EXTENDS Integers, Sequences, FiniteSets, TLC

(***************************************************************************)
(* Bounds of the model.                                                    *)
(***************************************************************************)
\* number of chunks the provider's response body delivers before it ends
MaxReads == 2
\* number of audio chunks in a batch_audio input
MaxChunks == 3
\* calls a client of the batch API makes
MaxOps == 5
\* requests in flight beside the one that is followed step by step
MaxConcurrent == 1
\* events a response stream of commitBatch yields before it ends
MaxYields == 2

(***************************************************************************)
(* Characters and string helpers.                                          *)
(***************************************************************************)
SP == " "
LF == "LF"
CR == "CR"
WhiteSpace == {SP, LF, CR}

RECURSIVE TrimLeft(_)
TrimLeft(s) == IF s # <<>> /\ Head(s) \in WhiteSpace THEN TrimLeft(Tail(s)) ELSE s

RECURSIVE TrimRight(_)
TrimRight(s) ==
  IF s # <<>> /\ s[Len(s)] \in WhiteSpace THEN TrimRight(SubSeq(s, 1, Len(s) - 1)) ELSE s

\* String.prototype.trim
Trim(s) == TrimRight(TrimLeft(s))

\* String.prototype.startsWith
StartsWith(s, p) == Len(s) >= Len(p) /\ SubSeq(s, 1, Len(p)) = p

\* String.prototype.indexOf('\n'), 1-based; 0 when absent
IndexOfLF(s) ==
  IF \E i \in 1..Len(s) : s[i] = LF
  THEN CHOOSE i \in 1..Len(s) : s[i] = LF /\ \A j \in 1..(i - 1) : s[j] # LF
  ELSE 0

\* String.prototype.slice(from) with a 0-based start
SliceFrom(s, from) == SubSeq(s, from + 1, Len(s))

(***************************************************************************)
(* State.                                                                  *)
(***************************************************************************)
VARIABLES
  \* ---- one request to POST /agents/supervisor/stream ----
  req,            \* the request: [hasFile, input, conversationId]
  hpc,            \* position of the handler
  transportOpen,  \* FALSE once the caller has closed the connection
  emitted,        \* the events passed to sseWrite, in order
  wire,           \* what was actually written to the open transport
  ended,          \* res.end() has been called
  convId,         \* the conversation id the handler uses
  transcript,     \* result of transcribeAudio
  respBody,       \* "present" | "null": body of the provider response
  gen,            \* state of the parseStreamingResponse generator
  buffer,         \* the generator's line buffer
  received,       \* all the text reader.read() has delivered so far
  reads,          \* chunks read from the provider body so far
  failure,        \* which stage failed, "none" if none did
  genReq,         \* body of the POST /v1/responses the stream path has sent
  convEvent,      \* conversationId carried by the conversation event
  svcContext      \* the context the handler handed to the service

streamVars == <<req, hpc, transportOpen, emitted, wire, ended, convId, transcript,
                respBody, gen, buffer, received, reads, failure, genReq, convEvent,
                svcContext>>

VARIABLES
  \* ---- one invocation of supervisorAgent.run ----
  sin,            \* the input: [kind, text, chunks, mode]
  svs,            \* params.vectorStoreIds: [defined, ids]
  sconv,          \* the caller-visible conversationId
  spc,            \* position of the invocation
  chunkState,     \* per chunk: "idle" | "inflight" | "settled"
  chunkText,      \* per chunk: the transcript its call produced ('' on failure)
  transcripts,    \* the transcripts array of processBatchAudioInput
  processed,      \* processedInput
  meta,           \* audioTranscriptionMetadata
  routingConv,    \* routingConvId
  decision,       \* the routing decision
  routingText,    \* the output text of the classification response
  log,            \* external calls and sub-agent invocations, in order
  sresult,        \* the AgentRunResult returned
  serr,           \* the error the invocation rejected with, <<>> if none
  callResult      \* per transcribeAudio call (0: the merged one): how it settled

supVars == <<sin, svs, sconv, spc, chunkState, chunkText, transcripts, processed,
             meta, routingConv, decision, routingText, log, sresult, serr,
             callResult>>

VARIABLES
  \* ---- the batch fields of a RealtimeAudioService instance ----
  batchAudioBuffer,  \* the chunks appended so far
  batchMimeType,     \* null or the MIME type given to startBatch
  batchContext       \* null or the context given to startBatch

svcVars == <<batchAudioBuffer, batchMimeType, batchContext>>

VARIABLES
  \* ---- one sub-agent invocation made without the supervisor ----
  agentCall          \* [name, input, conv, vs, pc, err, text]

subVars == <<agentCall>>

VARIABLES
  \* ---- one request to POST /agents/supervisor ----
  hreq,              \* [hasFile, input, conversationId, targetAgent, vectorStoreIds]
  rpc,               \* position of the handler
  rconv,             \* convId
  agentNameUsed,     \* agentNameUsed
  response           \* the HTTP response: [status, conversationId, agent, text, error]

routeVars == <<hreq, rpc, rconv, agentNameUsed, response>>

VARIABLES
  \* ---- a client of the batch API of one RealtimeAudioService instance ----
  commitPc,          \* position of the commitBatch in flight
  commitLocal,       \* its locals: [audioBuffer, mimeType, context]
  commitOutcome,     \* how the last commitBatch settled
  textOutcome,       \* how the last direct processTextWithContext settled
  accEvents,         \* the events emitted, in order
  issued,            \* the transcribeAudio calls made by commitBatch
  batchGen,          \* number of startBatch calls so far
  lastStart,         \* the arguments of the most recent startBatch
  appended,          \* number of appendAudioChunk calls so far
  respStreams,       \* per resolved commitBatch: its loop over responseStream
  ops,               \* number of calls made by the client
  lastOp             \* the method called last

accVars == <<commitPc, commitLocal, commitOutcome, textOutcome, accEvents, issued,
             batchGen, lastStart, appended, respStreams, ops, lastOp>>

\* what the actions of one part leave alone
nonStreamVars == <<supVars, subVars, routeVars, accVars>>
nonSupVars == <<streamVars, svcVars, subVars, routeVars, accVars>>
nonAccVars == <<streamVars, supVars, subVars, routeVars>>

(***************************************************************************)
(* Route layer: conversation ids.                                          *)
(***************************************************************************)
ConvPrefix == <<"c", "o", "n", "v", "_">>

Undefined == [type |-> "undefined", str |-> <<>>]
Str(s) == [type |-> "string", str |-> s]

\* conversationId values a request body can carry
ConvIdInputs ==
  { Undefined,
    Str(ConvPrefix \o <<"a">>),
    Str(<<"x">> \o ConvPrefix),
    [type |-> "number", str |-> <<"7">>] }

\* createConversation(): `conv_${uuid}`
RouteCreateConversation == ConvPrefix \o <<"u">>

\* ConvIdRejected without the prefix test: every non-empty string passes
ConvIdRejectedTypeOnly(c) ==
  \/ c.type = "undefined"
  \/ c.type = "string" /\ c.str = <<>>
  \/ c.type # "string"

\* !convId || typeof convId !== "string" || !convId.startsWith("conv_")
ConvIdRejected(c) ==
  \/ c.type = "undefined"
  \/ c.type = "string" /\ c.str = <<>>
  \/ c.type # "string"
  \/ ~StartsWith(c.str, ConvPrefix)

ResolveConvId(c) == IF ConvIdRejected(c) THEN RouteCreateConversation ELSE c.str

(***************************************************************************)
(* Vector store ids.                                                       *)
(***************************************************************************)
NoVs == [defined |-> FALSE, ids |-> <<>>]

\* params.vectorStoreIds: undefined, [] or ["vs_1"]
VsInputs ==
  { NoVs, [defined |-> TRUE, ids |-> <<>>], [defined |-> TRUE, ids |-> <<"vs_1">>] }

\* HasStores that takes any array, the empty one included, for stores
HasStoresAnyArray(vs) == vs.defined

\* vectorStoreIds?.length (truthy)
HasStores(vs) == vs.defined /\ Len(vs.ids) > 0

(***************************************************************************)
(* RealtimeAudioService: the batch fields.                                 *)
(***************************************************************************)
NullMime == "null"
NullContext == [isNull |-> TRUE, conversationId |-> <<>>, vectorStoreIds |-> NoVs]

\* { conversationId, vectorStoreIds }
Context(conv, vs) == [isNull |-> FALSE, conversationId |-> conv, vectorStoreIds |-> vs]

\* the three fields as one value
Batch ==
  [buffer |-> batchAudioBuffer, mimeType |-> batchMimeType, context |-> batchContext]

SetBatch(b) ==
  /\ batchAudioBuffer' = b.buffer
  /\ batchMimeType' = b.mimeType
  /\ batchContext' = b.context

\* the fields as the constructor and a reset leave them
EmptyBatch == [buffer |-> <<>>, mimeType |-> NullMime, context |-> NullContext]

\* BatchAfterText that leaves a mark of the call in the fields
BatchAfterTextMarked(b) == [b EXCEPT !.mimeType = "text/plain"]

\* BatchAfterText that empties the buffer and keeps the two other fields
BatchAfterTextBufferOnly(b) == [b EXCEPT !.buffer = <<>>]

\* processTextWithContext, lines 547-552: a batch buffer that is not empty
\* is cleared together with the MIME type and the context
BatchAfterText(b) == IF Len(b.buffer) > 0 THEN EmptyBatch ELSE b

\* the instance the routes share, as `new RealtimeAudioService` leaves it
SvcInit ==
  /\ batchAudioBuffer = EmptyBatch.buffer
  /\ batchMimeType = EmptyBatch.mimeType
  /\ batchContext = EmptyBatch.context

(***************************************************************************)
(* Provider response body: what reader.read() can deliver.                 *)
(* JSON payloads are one token each:                                       *)
(*   Jd  {"choices":[{"delta":{"content":"t"}}]}                           *)
(*   Jm  {"choices":[{"message":{"content":"t"}}]}                         *)
(*   Jo  valid JSON without choices (e.g. a Responses API event)           *)
(*   Jx  text that is not JSON                                             *)
(***************************************************************************)
DataPrefix == <<"d", "a", "t", "a", ":", SP>>
DoneMark == <<"[", "D", "O", "N", "E", "]">>
DataLine(payload) == DataPrefix \o payload \o <<LF>>

BodyChunks ==
  { DataLine(<<"Jd">>),
    DataLine(<<"Jm">>),
    DataLine(<<"Jo">>),
    DataLine(<<"Jx">>),
    DataLine(DoneMark),
    DataPrefix \o <<"Jd">>,                      \* a line cut before its newline
    <<CR, LF>>,                                  \* the rest of a cut line
    <<"e", "v", LF>> \o DataLine(<<"Jd">>),      \* a non-data line, then a data line
    DataLine(DoneMark) \o DataLine(<<"Jm">>) }   \* data sent after the marker

JsonDocs == {"Jd", "Jm", "Jo"}

\* JSON.parse(data): the parsed document, or "throw"
JsonParse(data) ==
  LET t == Trim(data)
  IN IF Len(t) = 1 /\ t[1] \in JsonDocs THEN t[1] ELSE "throw"

\* The event one parsed document yields, "none" if it yields nothing.
YieldOf(doc) ==
  IF doc = "Jd" THEN "text_delta"
  ELSE IF doc = "Jm" THEN "final"
  ELSE "none"

\* LineEffect that ends the stream at a data line that is not JSON
LineEffectStopsOnBadJson(rawLine) ==
  LET line == Trim(rawLine)
  IN IF StartsWith(line, DataPrefix)
     THEN LET data == SliceFrom(line, 6)
          IN IF data = DoneMark \/ JsonParse(data) = "throw" THEN "return"
             ELSE YieldOf(JsonParse(data))
     ELSE "none"

\* What one complete line of the buffer makes the generator do:
\* "return" at [DONE], an event type to yield, or "none".
LineEffect(rawLine) ==
  LET line == Trim(rawLine)
  IN IF StartsWith(line, DataPrefix)
     THEN LET data == SliceFrom(line, 6)
          IN IF data = DoneMark THEN "return" ELSE YieldOf(JsonParse(data))
     ELSE "none"

(***************************************************************************)
(* Transport writes.                                                       *)
(***************************************************************************)
\* res.write on the transport: delivered while open; once the caller has
\* closed it the write is dropped or raises.
WriteOutcomes(open) == IF open THEN {"ok"} ELSE {"dropped", "throws"}

\* sseWrite(res, event, data): try { res.write ... } catch { /* ignore */ }
\* The sequence of events evs is handed to sseWrite one after the other.
SseWrite(evs) ==
  /\ emitted' = emitted \o evs
  /\ wire' = IF transportOpen THEN wire \o evs ELSE wire

\* FailWith without the return: the handler falls through to the done write
FailWithFallsThrough(stage, evs) ==
  /\ SseWrite(evs \o <<"error", "done">>)
  /\ failure' = stage
  /\ ended' = TRUE
  /\ hpc' = "ended"

\* sseWrite(error); res.end()
FailWith(stage, evs) ==
  /\ SseWrite(evs \o <<"error">>)
  /\ failure' = stage
  /\ ended' = TRUE
  /\ hpc' = "ended"

\* sseWrite(done); res.end()
FinishOk ==
  /\ SseWrite(<<"done">>)
  /\ ended' = TRUE
  /\ hpc' = "ended"

\* no generation request has been sent
NoGenReq == [sent |-> FALSE, input |-> <<>>, conversation |-> Undefined, tools |-> NoVs]

\* JSON.stringify({model, input: text, instructions, tools, stream: true}):
\* the body names no conversation, whatever context.conversationId is; tools
\* is the file_search tool over context.vectorStoreIds if there are any
ResponsesBody(text, context) ==
  [sent |-> TRUE, input |-> text, conversation |-> Undefined,
   tools |-> IF HasStores(context.vectorStoreIds) THEN context.vectorStoreIds ELSE NoVs]

Transcripts == { <<>>, <<SP>>, <<"h", "i">> }
TextInputs == { <<>>, <<"y", "o">> }

\* targetAgent values a streaming request carries
StreamTargets == { Undefined, Str(<<"r", "a", "g">>) }

\* vectorStoreIds of a streaming request: absent or ["vs_1"]
StreamVs == { NoVs, [defined |-> TRUE, ids |-> <<"vs_1">>] }

\* the requests; the handler treats conversationId apart from targetAgent
\* and vectorStoreIds, so each is varied with the other at its default
StreamRequests ==
  { r \in [hasFile : BOOLEAN, input : TextInputs, conversationId : ConvIdInputs,
           targetAgent : StreamTargets, vectorStoreIds : StreamVs] :
      r.conversationId = Undefined
        \/ (r.targetAgent = Undefined /\ r.vectorStoreIds = NoVs) }

StreamInit ==
  /\ req \in StreamRequests
  /\ hpc = "start"
  /\ transportOpen = TRUE
  /\ emitted = <<>>
  /\ wire = <<>>
  /\ ended = FALSE
  /\ convId = <<>>
  /\ transcript = <<>>
  /\ respBody = "none"
  /\ gen = "none"
  /\ buffer = <<>>
  /\ received = <<>>
  /\ reads = 0
  /\ failure = "none"
  /\ genReq = NoGenReq
  /\ convEvent = <<>>
  /\ svcContext = NullContext

(***************************************************************************)
(* The streaming handler, router.post("/supervisor/stream").               *)
(***************************************************************************)
\* The caller closes the connection.
ClientClose ==
  /\ hpc \notin {"idle", "ended", "crashed"}
  /\ transportOpen
  /\ transportOpen' = FALSE
  /\ UNCHANGED <<req, convEvent, svcContext, genReq, hpc, emitted, wire,
                 ended, convId, transcript, respBody, gen, buffer, reads,
                 failure, received>>
  /\ UNCHANGED <<nonStreamVars, svcVars>>

\* res.write(":\n\n"), outside every try block
PaddingWrite ==
  /\ hpc = "start"
  /\ \E o \in WriteOutcomes(transportOpen) :
       /\ hpc' = IF o = "throws" THEN "crashed" ELSE "open"
       /\ wire' = IF o = "ok" THEN Append(wire, "padding") ELSE wire
  /\ UNCHANGED <<req, convEvent, svcContext, genReq, transportOpen, emitted,
                 ended, convId, transcript, respBody, gen, buffer, reads,
                 failure, received>>
  /\ UNCHANGED <<nonStreamVars, svcVars>>

\* BeginRequest without the `if (!finalInput)` return: an empty text is
\* passed on to the service
BeginRequestNoInputCheck ==
  /\ hpc = "open"
  /\ convId' = ResolveConvId(req.conversationId)
  /\ convEvent' = convId'
  /\ SseWrite(<<"conversation">>)
  /\ svcContext' = Context(convId', req.vectorStoreIds)
  /\ IF req.hasFile
     THEN /\ hpc' = "transcribe"
          /\ UNCHANGED <<genReq, svcVars>>
     ELSE /\ genReq' = ResponsesBody(req.input, svcContext')
          /\ SetBatch(BatchAfterText(Batch))
          /\ hpc' = "fetch"
  /\ UNCHANGED <<req, transportOpen, transcript, respBody, gen, buffer, reads,
                 received, ended, failure>>
  /\ UNCHANGED nonStreamVars

\* convId resolution, the conversation event and the choice of path; the
\* service is handed { conversationId: convId, vectorStoreIds: vsIds }
BeginRequest ==
  /\ hpc = "open"
  /\ convId' = ResolveConvId(req.conversationId)
  /\ convEvent' = convId'
  /\ IF req.hasFile
     THEN /\ SseWrite(<<"conversation">>)
          /\ svcContext' = Context(convId', req.vectorStoreIds)
          /\ hpc' = "transcribe"
          /\ UNCHANGED <<ended, failure, genReq, svcVars>>
     ELSE IF req.input = <<>>
     THEN /\ FailWith("no_input", <<"conversation">>)
          /\ UNCHANGED <<genReq, svcContext, svcVars>>
     ELSE /\ SseWrite(<<"conversation">>)
          /\ svcContext' = Context(convId', req.vectorStoreIds)
          /\ genReq' = ResponsesBody(req.input, svcContext')
          /\ SetBatch(BatchAfterText(Batch))
          /\ hpc' = "fetch"
          /\ UNCHANGED <<ended, failure>>
  /\ UNCHANGED <<req, transportOpen, transcript, respBody, gen, buffer, reads,
                 received>>
  /\ UNCHANGED nonStreamVars

\* processAudio: transcribeAudio returns result.text || "", and
\* processTextWithContext(transcript, context) sends the generation request
TranscribeReturn ==
  /\ hpc = "transcribe"
  /\ \E t \in Transcripts :
       /\ transcript' = t
       /\ genReq' = ResponsesBody(t, svcContext)
  /\ SetBatch(BatchAfterText(Batch))
  /\ hpc' = "fetch"
  /\ UNCHANGED <<req, convEvent, svcContext, transportOpen, emitted, wire,
                 ended, convId, respBody, gen, buffer, reads, failure,
                 received>>
  /\ UNCHANGED nonStreamVars

\* TranscribeFail with the failure mapped to an empty transcript instead of
\* being thrown
TranscribeFailSwallowed ==
  /\ hpc = "transcribe"
  /\ transcript' = <<>>
  /\ genReq' = ResponsesBody(<<>>, svcContext)
  /\ SetBatch(BatchAfterText(Batch))
  /\ failure' = "transcription"
  /\ hpc' = "fetch"
  /\ UNCHANGED <<req, convEvent, svcContext, transportOpen, emitted, wire,
                 ended, convId, respBody, gen, buffer, reads, received>>
  /\ UNCHANGED nonStreamVars

\* transcribeAudio throws (network error, !response.ok): caught at 616-619
TranscribeFail ==
  /\ hpc = "transcribe"
  /\ FailWith("transcription", <<>>)
  /\ UNCHANGED <<req, convEvent, svcContext, genReq, transportOpen, convId,
                 transcript, respBody, gen, buffer, reads, received>>
  /\ UNCHANGED <<nonStreamVars, svcVars>>

\* processTextWithContext: fetch succeeded, the generator object is returned
\* (not yet started); the audio path then writes the transcript event.
FetchOk ==
  /\ hpc = "fetch"
  /\ \E b \in {"present", "null"} : respBody' = b
  /\ gen' = "notstarted"
  /\ hpc' = "stream"
  /\ SseWrite(IF req.hasFile THEN <<"transcript">> ELSE <<>>)
  /\ UNCHANGED <<req, convEvent, svcContext, genReq, transportOpen, ended,
                 convId, transcript, buffer, reads, failure, received>>
  /\ UNCHANGED <<nonStreamVars, svcVars>>

\* fetch throws or !response.ok
FetchFail ==
  /\ hpc = "fetch"
  /\ FailWith("generation_start", <<>>)
  /\ UNCHANGED <<req, convEvent, svcContext, genReq, transportOpen, convId,
                 transcript, respBody, gen, buffer, reads, received>>
  /\ UNCHANGED <<nonStreamVars, svcVars>>

\* first next() on the generator: if (!response.body) throw
GenStart ==
  /\ hpc = "stream" /\ gen = "notstarted"
  /\ IF respBody = "null"
     THEN /\ FailWith("generation_stream", <<>>)
          /\ gen' = "done"
     ELSE /\ gen' = "reading"
          /\ UNCHANGED <<hpc, emitted, wire, ended, failure>>
  /\ UNCHANGED <<req, convEvent, svcContext, genReq, transportOpen, convId,
                 transcript, respBody, buffer, reads, received>>
  /\ UNCHANGED <<nonStreamVars, svcVars>>

\* reader.read() delivers a chunk; buffer += decode(value)
GenReadChunk ==
  /\ hpc = "stream" /\ gen = "reading"
  /\ IndexOfLF(buffer) = 0
  /\ reads < MaxReads
  /\ \E c \in BodyChunks :
       /\ buffer' = buffer \o c
       /\ received' = received \o c
  /\ reads' = reads + 1
  /\ UNCHANGED <<req, convEvent, svcContext, genReq, hpc, transportOpen,
                 emitted, wire, ended, convId, transcript, respBody, gen,
                 failure>>
  /\ UNCHANGED <<nonStreamVars, svcVars>>

\* reader.read() reports done: the loop breaks, the generator returns and
\* the handler writes done and ends the response
GenReadEnd ==
  /\ hpc = "stream" /\ gen = "reading"
  /\ IndexOfLF(buffer) = 0
  /\ gen' = "done"
  /\ FinishOk
  /\ UNCHANGED <<req, convEvent, svcContext, genReq, transportOpen, convId,
                 transcript, respBody, buffer, reads, failure, received>>
  /\ UNCHANGED <<nonStreamVars, svcVars>>

\* reader.read() rejects: the for-await loop throws into the handler's catch
GenReadFail ==
  /\ hpc = "stream" /\ gen = "reading"
  /\ IndexOfLF(buffer) = 0
  /\ gen' = "done"
  /\ FailWith("generation_stream", <<>>)
  /\ UNCHANGED <<req, convEvent, svcContext, genReq, transportOpen, convId,
                 transcript, respBody, buffer, reads, received>>
  /\ UNCHANGED <<nonStreamVars, svcVars>>

\* one complete line of the buffer is consumed; a yielded event is written
\* by the handler's loop body, [DONE] makes the generator return
GenLine ==
  /\ hpc = "stream" /\ gen = "reading"
  /\ IndexOfLF(buffer) # 0
  /\ LET idx == IndexOfLF(buffer)
         eff == LineEffect(SubSeq(buffer, 1, idx - 1))
     IN /\ buffer' = SliceFrom(buffer, idx)
        /\ IF eff = "return"
           THEN /\ gen' = "done"
                /\ FinishOk
           ELSE /\ SseWrite(IF eff = "none" THEN <<>> ELSE <<eff>>)
                /\ UNCHANGED <<hpc, ended, gen>>
  /\ UNCHANGED <<req, convEvent, svcContext, genReq, transportOpen, convId,
                 transcript, respBody, reads, failure, received>>
  /\ UNCHANGED <<nonStreamVars, svcVars>>

NextStream ==
  \/ ClientClose
  \/ PaddingWrite
  \/ BeginRequest
  \/ TranscribeReturn
  \/ TranscribeFail
  \/ FetchOk
  \/ FetchFail
  \/ GenStart
  \/ GenReadChunk
  \/ GenReadEnd
  \/ GenReadFail
  \/ GenLine

(***************************************************************************)
(* supervisorAgent.run: inputs.                                            *)
(***************************************************************************)
\* the i-th chunk of a batch: buffers of different lengths, alternating types
ChunkAt(i) ==
  [audioBuffer |-> IF i % 2 = 1 THEN <<i>> ELSE <<i, i>>,
   mimeType |-> IF i % 2 = 1 THEN "audio/webm" ELSE "audio/wav"]

ChunkList(n) == [i \in 1..n |-> ChunkAt(i)]

\* batchMetadata?.processingMode, "absent" when not given
Modes == {"absent", "sequential", "parallel", "merged"}

\* batchInput.batchMetadata?.processingMode || 'sequential'
ProcessingMode(m) == IF m = "absent" THEN "sequential" ELSE m

SupInputs ==
  {[kind |-> "text", text |-> <<"y", "o">>, chunks |-> <<>>, mode |-> "absent"]}
  \cup {[kind |-> "audio", text |-> <<>>, chunks |-> ChunkList(1), mode |-> "absent"]}
  \cup {[kind |-> "batch_audio", text |-> <<>>, chunks |-> ChunkList(n), mode |-> m] :
          n \in 0..MaxChunks, m \in Modes}
  \cup {[kind |-> "other", text |-> <<>>, chunks |-> <<>>, mode |-> "absent"]}

CallerConvs == { ConvPrefix \o <<"a">> }

\* (openai as any).conversations.create({}) -> conv.id
SdkCreateConversation == ConvPrefix \o <<"r">>

(***************************************************************************)
(* External calls as they appear in the log.                               *)
(***************************************************************************)
Entry(op, ph, idx, conv, buf, mime, vs) ==
  [op |-> op, ph |-> ph, idx |-> idx, conv |-> conv, buf |-> buf, mime |-> mime,
   vs |-> vs]

TranscribeStart(i, buf, mime) == Entry("transcribe", "start", i, <<>>, buf, mime, NoVs)
TranscribeEnd(i) == Entry("transcribe", "end", i, <<>>, <<>>, "", NoVs)
ConvStart == Entry("createConversation", "start", 0, <<>>, <<>>, "", NoVs)
ConvEnd == Entry("createConversation", "end", 0, <<>>, <<>>, "", NoVs)
ClassifyStart(conv) == Entry("classify", "start", 0, conv, <<>>, "", NoVs)
ClassifyEnd == Entry("classify", "end", 0, <<>>, <<>>, "", NoVs)
\* agent.run({ conversationId: conv, input, params: { vectorStoreIds: vs } }); the
\* entry keeps the input in its buf member
AgentRun(name, conv, vs, input) == Entry(name, "call", 0, conv, input, "", vs)
GenerateStart(conv, vs) == Entry("generate", "start", 0, conv, <<>>, "", vs)
GenerateEnd == Entry("generate", "end", 0, <<>>, <<>>, "", NoVs)

\* What one transcribeAudio call can do: throw, or return result.text || "".
Word(i) == <<"w", ToString(i)>>

TranscribeOutcomes(i) ==
  { [ok |-> FALSE, text |-> <<>>],
    [ok |-> TRUE, text |-> <<>>],
    [ok |-> TRUE, text |-> <<SP>>],
    [ok |-> TRUE, text |-> Word(i)] }

\* NonBlank without the trim
NonBlankUntrimmed(t) == Len(t) > 0

\* transcript && transcript.trim().length > 0
NonBlank(t) == Len(Trim(t)) > 0

\* Array.prototype.join(' ')
RECURSIVE Join(_)
Join(ts) ==
  IF ts = <<>> THEN <<>>
  ELSE IF Len(ts) = 1 THEN ts[1]
  ELSE ts[1] \o <<SP>> \o Join(Tail(ts))

\* Array.prototype.filter(t => t.trim().length > 0)
RECURSIVE FilterNonBlank(_)
FilterNonBlank(ts) ==
  IF ts = <<>> THEN <<>>
  ELSE IF NonBlank(Head(ts)) THEN <<Head(ts)>> \o FilterNonBlank(Tail(ts))
  ELSE FilterNonBlank(Tail(ts))

\* ConcatBuffers that keeps the first chunk's bytes only
ConcatFirstOnly(cs) == IF cs = <<>> THEN <<>> ELSE Head(cs).audioBuffer

\* Buffer.concat(chunks.map(c => c.audioBuffer))
RECURSIVE ConcatBuffers(_)
ConcatBuffers(cs) ==
  IF cs = <<>> THEN <<>> ELSE Head(cs).audioBuffer \o ConcatBuffers(Tail(cs))

(***************************************************************************)
(* Errors, as the parts of the message.                                    *)
(***************************************************************************)
ErrUnsupported == <<"Unsupported input type">>
ErrProvider == "provider call failed"
ErrEmptyTranscript == "Audio transcription resulted in empty text"
ErrNoChunks == "No audio chunks could be successfully transcribed"
AudioWrap == "Audio transcription failed"
BatchWrap == "Batch audio transcription failed"
ErrRagNoStores == <<"RAG agent requires params.vectorStoreIds: string[]">>

(***************************************************************************)
(* audioTranscriptionMetadata.                                             *)
(***************************************************************************)
TextMeta ==
  [audioProcessed |-> "undefined", audioType |-> "undefined", mimeType |-> "undefined",
   chunksCount |-> 0, processingMode |-> "undefined"]

SingleMeta(input) ==
  [audioProcessed |-> "true", audioType |-> "single",
   mimeType |-> input.chunks[1].mimeType, chunksCount |-> 0,
   processingMode |-> "undefined"]

BatchMeta(input) ==
  [audioProcessed |-> "true", audioType |-> "batch", mimeType |-> "undefined",
   chunksCount |-> Len(input.chunks), processingMode |-> ProcessingMode(input.mode)]

(***************************************************************************)
(* Routing classification: the model's output text and its parsing.        *)
(* A text is described by what JSON.parse and the schema see in it:        *)
(*   wf     it is well-formed JSON                                         *)
(*   obj    the JSON value is an object                                    *)
(*   route  the value of its "route" member                                *)
(*   query  the value of its "query" member                                *)
(***************************************************************************)
Absent == [t |-> "absent", v |-> ""]
RouteVal(r) == [t |-> "string", v |-> r]
NoQuery == [t |-> "absent", v |-> <<>>]
QueryVal(q) == [t |-> "string", v |-> q]
NumQuery == [t |-> "number", v |-> <<>>]

Doc(wf, obj, route, query) == [wf |-> wf, obj |-> obj, route |-> route, query |-> query]

\* no classification response has been received
NoDoc == Doc(FALSE, FALSE, [t |-> "none", v |-> ""], NoQuery)

\* JSON.stringify(resp) of a response that carries no output text
StringifiedResp == Doc(TRUE, TRUE, Absent, NoQuery)

\* the responses the classification call can come back with
ClassifierResponses(text) ==
  { [hasText |-> TRUE, doc |-> d] :
      d \in { Doc(TRUE, TRUE, RouteVal("direct"), QueryVal(text)),
              Doc(TRUE, TRUE, RouteVal("direct"), QueryVal(<<"q">>)),
              Doc(TRUE, TRUE, RouteVal("rag"), QueryVal(text)),
              Doc(TRUE, TRUE, RouteVal("rag"), QueryVal(<<"q">>)),
              Doc(FALSE, FALSE, Absent, NoQuery),
              Doc(TRUE, FALSE, Absent, NoQuery),
              Doc(TRUE, TRUE, RouteVal("web"), QueryVal(text)),
              Doc(TRUE, TRUE, RouteVal("rag"), NumQuery),
              Doc(TRUE, TRUE, RouteVal("direct"), NoQuery) } }
  \cup { [hasText |-> FALSE, doc |-> StringifiedResp] }

\* getOutputText(resp)
GetOutputText(resp) == IF resp.hasText THEN resp.doc ELSE StringifiedResp

\* JSON.parse(text) does not throw
JsonParses(doc) == doc.wf

\* SupervisorDecisionSchema.parse(parsed) does not throw
SchemaAccepts(doc) ==
  /\ doc.obj
  /\ doc.route.t = "string" /\ doc.route.v \in {"direct", "rag"}
  /\ doc.query.t = "string"

\* HeuristicDecision that ignores the vector stores
HeuristicAlwaysDirect(vs, text) == [route |-> "direct", query |-> text]

\* let decision = { route: vectorStoreIds?.length ? "rag" : "direct", query: processedInput }
HeuristicDecision(vs, text) ==
  [route |-> IF HasStores(vs) THEN "rag" ELSE "direct", query |-> text]

\* try { decision = Schema.parse(JSON.parse(getOutputText(resp))) } catch { }
Decide(doc, vs, text) ==
  IF JsonParses(doc) /\ SchemaAccepts(doc)
  THEN [route |-> doc.route.v, query |-> doc.query.v]
  ELSE HeuristicDecision(vs, text)

\* RoutingConvCalls with the conversation requested twice
RoutingConvCallsTwice == <<ConvStart, ConvStart>>

\* the createConversation calls one invocation issues for routing
RoutingConvCalls == <<ConvStart>>

\* ClassifyConv that sends the classification on the caller's conversation
ClassifyOnCaller(routing, caller) == caller

\* conversation: routingConvId, of the classification call (line 138)
ClassifyConv(routing, caller) == routing

\* AllSettled as Promise.race would have it: one settled call is enough
AnySettled(cs, n) == \E j \in 1..n : cs[j] = "settled"

\* Promise.all(transcriptionPromises) resolves: every chunk's call has settled
AllSettled(cs, n) == \A j \in 1..n : cs[j] = "settled"

\* a transcribeAudio call that has not settled, one that threw, one that
\* returned text
NoCall == [st |-> "none", text |-> <<>>]
Settled(o) == [st |-> IF o.ok THEN "returned" ELSE "threw", text |-> o.text]

NoDecision == [route |-> "none", query |-> <<>>]
NoResult == [conversationId |-> <<>>, text |-> <<>>, routingDecision |-> NoDecision,
             audioTranscription |-> TextMeta, originalInputType |-> "none"]

SupInit ==
  /\ sin \in SupInputs
  /\ svs \in VsInputs
  /\ sconv \in CallerConvs
  /\ spc = "start"
  /\ chunkState = [i \in 1..MaxChunks |-> "idle"]
  /\ chunkText = [i \in 1..MaxChunks |-> <<>>]
  /\ transcripts = <<>>
  /\ processed = <<>>
  /\ meta = TextMeta
  /\ routingConv = <<>>
  /\ decision = NoDecision
  /\ routingText = NoDoc
  /\ log = <<>>
  /\ sresult = NoResult
  /\ serr = <<>>
  /\ callResult = [i \in 0..MaxChunks |-> NoCall]

SupIdle ==
  /\ sin = [kind |-> "text", text |-> <<"y", "o">>, chunks |-> <<>>, mode |-> "absent"]
  /\ svs = NoVs
  /\ sconv = ConvPrefix \o <<"a">>
  /\ spc = "idle"
  /\ chunkState = [i \in 1..MaxChunks |-> "idle"]
  /\ chunkText = [i \in 1..MaxChunks |-> <<>>]
  /\ transcripts = <<>>
  /\ processed = <<>>
  /\ meta = TextMeta
  /\ routingConv = <<>>
  /\ decision = NoDecision
  /\ routingText = NoDoc
  /\ log = <<>>
  /\ sresult = NoResult
  /\ serr = <<>>
  /\ callResult = [i \in 0..MaxChunks |-> NoCall]

StreamIdle ==
  /\ req = [hasFile |-> FALSE, input |-> <<>>, conversationId |-> Undefined,
            targetAgent |-> Undefined, vectorStoreIds |-> NoVs]
  /\ hpc = "idle"
  /\ transportOpen = TRUE
  /\ emitted = <<>>
  /\ wire = <<>>
  /\ ended = FALSE
  /\ convId = <<>>
  /\ transcript = <<>>
  /\ respBody = "none"
  /\ gen = "none"
  /\ buffer = <<>>
  /\ received = <<>>
  /\ reads = 0
  /\ failure = "none"
  /\ genReq = NoGenReq
  /\ convEvent = <<>>
  /\ svcContext = NullContext

(***************************************************************************)
(* supervisorAgent.run, step 1: normalisation.                             *)
(***************************************************************************)
\* Normalisation succeeded: the routing prompt is built and the disposable
\* conversation is requested (lines 117-134).
NormalizeOk(text, m, lg) ==
  /\ processed' = text
  /\ meta' = m
  /\ log' = lg \o RoutingConvCalls
  /\ spc' = "create_conv"
  /\ serr' = serr

\* Normalisation threw: run rejects with err.
NormalizeFail(err, lg) ==
  /\ serr' = err
  /\ spc' = "failed"
  /\ log' = lg
  /\ UNCHANGED <<processed, meta>>

\* lines 311-316: throw if no transcript survived, else join(' ').trim();
\* the throw is re-wrapped by the catch at 318-321
FinishBatch(ts, lg) ==
  /\ transcripts' = ts
  /\ IF Len(ts) = 0
     THEN NormalizeFail(<<BatchWrap, ErrNoChunks>>, lg)
     ELSE NormalizeOk(Trim(Join(ts)), BatchMeta(sin), lg)

\* StartText that hands the string to processAudioInput
StartTextTranscribes ==
  /\ spc = "start" /\ sin.kind = "text"
  /\ log' = Append(log, TranscribeStart(1, <<>>, "undefined"))
  /\ chunkState' = [chunkState EXCEPT ![1] = "inflight"]
  /\ spc' = "single"
  /\ UNCHANGED <<sin, svs, sconv, callResult, chunkText, transcripts, processed, meta,
                 routingConv, decision, routingText, sresult, serr>>
  /\ UNCHANGED nonSupVars

\* typeof input === 'string'
StartText ==
  /\ spc = "start" /\ sin.kind = "text"
  /\ NormalizeOk(sin.text, TextMeta, log)
  /\ UNCHANGED <<sin, svs, sconv, callResult, chunkState, chunkText, transcripts,
                 routingConv, decision, routingText, sresult>>
  /\ UNCHANGED nonSupVars

\* StartUnsupported with the value taken for a text all the same
StartUnsupportedAsText ==
  /\ spc = "start" /\ sin.kind = "other"
  /\ NormalizeOk(sin.text, TextMeta, log)
  /\ UNCHANGED <<sin, svs, sconv, callResult, chunkState, chunkText, transcripts,
                 routingConv, decision, routingText, sresult>>
  /\ UNCHANGED nonSupVars

\* neither a string nor a recognised type
StartUnsupported ==
  /\ spc = "start" /\ sin.kind = "other"
  /\ NormalizeFail(ErrUnsupported, log)
  /\ UNCHANGED <<sin, svs, sconv, callResult, chunkState, chunkText, transcripts,
                 routingConv, decision, routingText, sresult>>
  /\ UNCHANGED nonSupVars

\* input.type === 'audio': processAudioInput issues transcribeAudio
StartSingleAudio ==
  /\ spc = "start" /\ sin.kind = "audio"
  /\ log' = Append(log, TranscribeStart(1, sin.chunks[1].audioBuffer, sin.chunks[1].mimeType))
  /\ chunkState' = [chunkState EXCEPT ![1] = "inflight"]
  /\ spc' = "single"
  /\ UNCHANGED <<sin, svs, sconv, callResult, chunkText, transcripts, processed, meta,
                 routingConv, decision, routingText, sresult, serr>>
  /\ UNCHANGED nonSupVars

\* the single transcription settles (lines 212-237)
SingleDone ==
  /\ spc = "single"
  /\ \E o \in TranscribeOutcomes(1) :
       LET lg == Append(log, TranscribeEnd(1))
       IN /\ chunkText' = [chunkText EXCEPT ![1] = o.text]
          /\ callResult' = [callResult EXCEPT ![1] = Settled(o)]
          /\ IF ~o.ok THEN NormalizeFail(<<AudioWrap, ErrProvider>>, lg)
             ELSE IF ~NonBlank(o.text) THEN NormalizeFail(<<AudioWrap, ErrEmptyTranscript>>, lg)
             ELSE NormalizeOk(o.text, SingleMeta(sin), lg)
  /\ chunkState' = [chunkState EXCEPT ![1] = "settled"]
  /\ UNCHANGED <<sin, svs, sconv, transcripts, routingConv, decision, routingText, sresult>>
  /\ UNCHANGED nonSupVars

\* batch, parallel: map() issues one transcribeAudio per chunk before any settles
StartBatchParallel ==
  /\ spc = "start" /\ sin.kind = "batch_audio"
  /\ ProcessingMode(sin.mode) = "parallel"
  /\ LET n == Len(sin.chunks)
         starts == [i \in 1..n |->
                      TranscribeStart(i, sin.chunks[i].audioBuffer, sin.chunks[i].mimeType)]
     IN IF n = 0
        THEN /\ FinishBatch(<<>>, log)
             /\ UNCHANGED chunkState
        ELSE /\ log' = log \o starts
             /\ chunkState' = [i \in 1..MaxChunks |-> IF i <= n THEN "inflight" ELSE "idle"]
             /\ spc' = "parallel"
             /\ UNCHANGED <<transcripts, processed, meta, serr>>
  /\ UNCHANGED <<sin, svs, sconv, callResult, chunkText, routingConv, decision, routingText,
                 sresult>>
  /\ UNCHANGED nonSupVars

\* the chunk indices of the transcription calls that have settled, in the
\* order in which they settled
RECURSIVE CompletionOrder(_)
CompletionOrder(lg) ==
  IF lg = <<>> THEN <<>>
  ELSE IF Head(lg).op = "transcribe" /\ Head(lg).ph = "end"
       THEN <<Head(lg).idx>> \o CompletionOrder(Tail(lg))
       ELSE CompletionOrder(Tail(lg))

\* ChunkCatch without the try/catch: the rejection reaches Promise.all
ChunkNoCatch(o) == o

\* the per-chunk async callback (267-275): it returns the transcript, or ''
\* from its catch block, so its promise is always fulfilled
ChunkCatch(o) == [ok |-> TRUE, text |-> IF o.ok THEN o.text ELSE <<>>]

\* ResultsByIndex with the results taken in the order the calls settled
ResultsByCompletion(ct, ends, n) == [j \in 1..n |-> ct[ends[j]]]

\* await Promise.all(...); results.sort((a, b) => a.index - b.index);
\* results.map(r => r.transcript): the transcripts by chunk index
ResultsByIndex(ct, ends, n) == [j \in 1..n |-> ct[j]]

\* one of the parallel calls settles; a failure is mapped to ''. When the
\* last one settles Promise.all resolves and the results, taken by index,
\* are filtered and joined. (A rejected promise would reject Promise.all.)
ParallelChunkDone ==
  /\ spc = "parallel"
  /\ \E i \in 1..Len(sin.chunks) :
       /\ chunkState[i] = "inflight"
       /\ \E o \in TranscribeOutcomes(i) :
            LET n == Len(sin.chunks)
                r == ChunkCatch(o)
                cs == [chunkState EXCEPT ![i] = "settled"]
                ct == [chunkText EXCEPT ![i] = r.text]
                lg == Append(log, TranscribeEnd(i))
                results == ResultsByIndex(ct, CompletionOrder(lg), n)
            IN /\ chunkState' = cs
               /\ chunkText' = ct
               /\ callResult' = [callResult EXCEPT ![i] = Settled(o)]
               /\ IF ~r.ok
                  THEN /\ NormalizeFail(<<BatchWrap, ErrProvider>>, lg)
                       /\ UNCHANGED transcripts
                  ELSE IF AllSettled(cs, n)
                  THEN FinishBatch(FilterNonBlank(results), lg)
                  ELSE /\ log' = lg
                       /\ UNCHANGED <<transcripts, processed, meta, spc, serr>>
  /\ UNCHANGED <<sin, svs, sconv, routingConv, decision, routingText, sresult>>
  /\ UNCHANGED nonSupVars

\* StartBatchMerged without the if (firstChunk): the call is made on
\* whatever was concatenated
StartBatchMergedUnguarded ==
  /\ spc = "start" /\ sin.kind = "batch_audio"
  /\ ProcessingMode(sin.mode) = "merged"
  /\ log' = Append(log, TranscribeStart(0, ConcatBuffers(sin.chunks),
                      IF Len(sin.chunks) = 0 THEN "undefined"
                      ELSE sin.chunks[1].mimeType))
  /\ spc' = "merged"
  /\ UNCHANGED <<sin, svs, sconv, callResult, chunkState, chunkText, transcripts, processed,
                 meta, routingConv, decision, routingText, sresult, serr>>
  /\ UNCHANGED nonSupVars

\* batch, merged: one call on the concatenated buffer, if there is a first chunk
StartBatchMerged ==
  /\ spc = "start" /\ sin.kind = "batch_audio"
  /\ ProcessingMode(sin.mode) = "merged"
  /\ IF Len(sin.chunks) = 0
     THEN FinishBatch(<<>>, log)
     ELSE /\ log' = Append(log, TranscribeStart(0, ConcatBuffers(sin.chunks),
                                                 sin.chunks[1].mimeType))
          /\ spc' = "merged"
          /\ UNCHANGED <<transcripts, processed, meta, serr>>
  /\ UNCHANGED <<sin, svs, sconv, callResult, chunkState, chunkText, routingConv, decision,
                 routingText, sresult>>
  /\ UNCHANGED nonSupVars

\* the merged call settles; its failure is not caught per chunk
MergedDone ==
  /\ spc = "merged"
  /\ \E o \in TranscribeOutcomes(0) :
       LET lg == Append(log, TranscribeEnd(0))
       IN /\ callResult' = [callResult EXCEPT ![0] = Settled(o)]
          /\ IF ~o.ok
             THEN /\ NormalizeFail(<<BatchWrap, ErrProvider>>, lg)
                  /\ UNCHANGED transcripts
             ELSE FinishBatch(IF NonBlank(o.text) THEN <<o.text>> ELSE <<>>, lg)
  /\ UNCHANGED <<sin, svs, sconv, chunkState, chunkText, routingConv, decision, routingText,
                 sresult>>
  /\ UNCHANGED nonSupVars

\* StartBatchSequential that issues the calls of all chunks at once
StartBatchSequentialAll ==
  /\ spc = "start" /\ sin.kind = "batch_audio"
  /\ ProcessingMode(sin.mode) \notin {"parallel", "merged"}
  /\ LET n == Len(sin.chunks)
     IN IF n = 0
        THEN /\ FinishBatch(<<>>, log)
             /\ UNCHANGED chunkState
        ELSE /\ log' = log \o [i \in 1..n |->
                                 TranscribeStart(i, sin.chunks[i].audioBuffer,
                                                 sin.chunks[i].mimeType)]
             /\ chunkState' = [i \in 1..MaxChunks |-> IF i <= n THEN "inflight" ELSE "idle"]
             /\ spc' = "sequential"
             /\ UNCHANGED <<transcripts, processed, meta, serr>>
  /\ UNCHANGED <<sin, svs, sconv, callResult, chunkText, routingConv, decision, routingText,
                 sresult>>
  /\ UNCHANGED nonSupVars

\* batch, sequential (default): the loop issues the call for chunk 0
StartBatchSequential ==
  /\ spc = "start" /\ sin.kind = "batch_audio"
  /\ ProcessingMode(sin.mode) \notin {"parallel", "merged"}
  /\ IF Len(sin.chunks) = 0
     THEN /\ FinishBatch(<<>>, log)
          /\ UNCHANGED chunkState
     ELSE /\ log' = Append(log, TranscribeStart(1, sin.chunks[1].audioBuffer,
                                                 sin.chunks[1].mimeType))
          /\ chunkState' = [chunkState EXCEPT ![1] = "inflight"]
          /\ spc' = "sequential"
          /\ UNCHANGED <<transcripts, processed, meta, serr>>
  /\ UNCHANGED <<sin, svs, sconv, callResult, chunkText, routingConv, decision, routingText,
                 sresult>>
  /\ UNCHANGED nonSupVars

\* SeqPush that pushes whatever the call left behind, '' for a failure
SeqPushAlways(ts, o) == Append(ts, IF o.ok THEN o.text ELSE <<>>)

\* the loop body (299-307): a transcript that is not blank is pushed, a
\* failure is logged and skipped
SeqPush(ts, o) ==
  IF o.ok /\ NonBlank(o.text) THEN Append(ts, o.text) ELSE ts

\* the call of the current chunk settles: a transcript that is not blank is
\* pushed, a failure is logged and skipped; then the next chunk, or the end
SequentialChunkDone ==
  /\ spc = "sequential"
  /\ \E i \in 1..Len(sin.chunks) :
       /\ chunkState[i] = "inflight"
       /\ \E o \in TranscribeOutcomes(i) :
            LET n == Len(sin.chunks)
                ts == SeqPush(transcripts, o)
                lg == Append(log, TranscribeEnd(i))
            IN /\ chunkText' = [chunkText EXCEPT ![i] = IF o.ok THEN o.text ELSE <<>>]
               /\ callResult' = [callResult EXCEPT ![i] = Settled(o)]
               /\ IF i < n
                  THEN /\ log' = Append(lg, TranscribeStart(i + 1,
                                               sin.chunks[i + 1].audioBuffer,
                                               sin.chunks[i + 1].mimeType))
                       /\ chunkState' = [chunkState EXCEPT ![i] = "settled",
                                                            ![i + 1] = "inflight"]
                       /\ transcripts' = ts
                       /\ UNCHANGED <<processed, meta, spc, serr>>
                  ELSE /\ chunkState' = [chunkState EXCEPT ![i] = "settled"]
                       /\ FinishBatch(ts, lg)
  /\ UNCHANGED <<sin, svs, sconv, routingConv, decision, routingText, sresult>>
  /\ UNCHANGED nonSupVars

(***************************************************************************)
(* supervisorAgent.run, steps 2-4: classify, dispatch, assemble.           *)
(***************************************************************************)
\* createConversation() resolves; the classification call is sent on it
CreateConvReturn ==
  /\ spc = "create_conv"
  /\ routingConv' = SdkCreateConversation
  /\ log' = log \o <<ConvEnd,
                    ClassifyStart(ClassifyConv(SdkCreateConversation, sconv))>>
  /\ spc' = "classify"
  /\ UNCHANGED <<sin, svs, sconv, callResult, chunkState, chunkText, transcripts, processed,
                 meta, decision, routingText, sresult, serr>>
  /\ UNCHANGED nonSupVars

\* createConversation() rejects
CreateConvFail ==
  /\ spc = "create_conv"
  /\ log' = Append(log, ConvEnd)
  /\ serr' = <<ErrProvider>>
  /\ spc' = "failed"
  /\ UNCHANGED <<sin, svs, sconv, callResult, chunkState, chunkText, transcripts, processed,
                 meta, routingConv, decision, routingText, sresult>>
  /\ UNCHANGED nonSupVars

\* Dispatch that hands every decision to directAgent.run
DispatchDirectOnly(d, lg) ==
  /\ log' = lg \o <<AgentRun("directAgent.run", sconv, svs, d.query),
                     GenerateStart(sconv, NoVs)>>
  /\ spc' = "dispatch"
  /\ serr' = serr

\* ragAgent.run / directAgent.run up to their model call (decision.query is
\* always a string, so the typeof check passes)
Dispatch(d, lg) ==
  IF d.route = "rag"
  THEN LET lg2 == Append(lg, AgentRun("ragAgent.run", sconv, svs, d.query))
       IN IF ~HasStores(svs)
          THEN /\ log' = lg2
               /\ serr' = ErrRagNoStores
               /\ spc' = "failed"
          ELSE /\ log' = Append(lg2, GenerateStart(sconv, svs))
               /\ spc' = "dispatch"
               /\ serr' = serr
  ELSE /\ log' = lg \o <<AgentRun("directAgent.run", sconv, svs, d.query),
                       GenerateStart(sconv, NoVs)>>
       /\ spc' = "dispatch"
       /\ serr' = serr

\* the classification call resolves: decide and dispatch
ClassifyReturn ==
  /\ spc = "classify"
  /\ \E resp \in ClassifierResponses(processed) :
       LET doc == GetOutputText(resp)
           d == Decide(doc, svs, processed)
       IN /\ decision' = d
          /\ routingText' = doc
          /\ Dispatch(d, Append(log, ClassifyEnd))
  /\ UNCHANGED <<sin, svs, sconv, callResult, chunkState, chunkText, transcripts, processed,
                 meta, routingConv, sresult>>
  /\ UNCHANGED nonSupVars

\* ClassifyFail with the rejection treated like malformed output: the
\* heuristic decision is dispatched on
ClassifyFailFallsBack ==
  /\ spc = "classify"
  /\ decision' = HeuristicDecision(svs, processed)
  /\ Dispatch(decision', Append(log, ClassifyEnd))
  /\ UNCHANGED <<sin, svs, sconv, callResult, chunkState, chunkText, transcripts, processed,
                 meta, routingConv, routingText, sresult>>
  /\ UNCHANGED nonSupVars

\* the classification call rejects
ClassifyFail ==
  /\ spc = "classify"
  /\ log' = Append(log, ClassifyEnd)
  /\ serr' = <<ErrProvider>>
  /\ spc' = "failed"
  /\ UNCHANGED <<sin, svs, sconv, callResult, chunkState, chunkText, transcripts, processed,
                 meta, routingConv, decision, routingText, sresult>>
  /\ UNCHANGED nonSupVars

\* the sub-agent's model call resolves; the result is assembled (167-177)
DispatchReturn ==
  /\ spc = "dispatch"
  /\ log' = Append(log, GenerateEnd)
  /\ sresult' = [conversationId |-> sconv, text |-> <<"o", "k">>,
                 routingDecision |-> decision, audioTranscription |-> meta,
                 originalInputType |-> sin.kind]
  /\ spc' = "done"
  /\ UNCHANGED <<sin, svs, sconv, callResult, chunkState, chunkText, transcripts, processed,
                 meta, routingConv, decision, routingText, serr>>
  /\ UNCHANGED nonSupVars

\* the sub-agent's model call rejects
DispatchFail ==
  /\ spc = "dispatch"
  /\ log' = Append(log, GenerateEnd)
  /\ serr' = <<ErrProvider>>
  /\ spc' = "failed"
  /\ UNCHANGED <<sin, svs, sconv, callResult, chunkState, chunkText, transcripts, processed,
                 meta, routingConv, decision, routingText, sresult>>
  /\ UNCHANGED nonSupVars

NextSup ==
  \/ StartText
  \/ StartUnsupported
  \/ StartSingleAudio
  \/ SingleDone
  \/ StartBatchParallel
  \/ ParallelChunkDone
  \/ StartBatchMerged
  \/ MergedDone
  \/ StartBatchSequential
  \/ SequentialChunkDone
  \/ CreateConvReturn
  \/ CreateConvFail
  \/ ClassifyReturn
  \/ ClassifyFail
  \/ DispatchReturn
  \/ DispatchFail

(***************************************************************************)
(* directAgent.run / ragAgent.run invoked by a caller other than the       *)
(* supervisor.                                                             *)
(***************************************************************************)
AgentNames == {"direct", "rag"}

\* the log name of an agent's run
AgentOp(name) == IF name = "rag" THEN "ragAgent.run" ELSE "directAgent.run"

ErrDirectNotString == <<"DirectAgent only accepts string inputs">>
ErrRagNotString == <<"RAGAgent only accepts string inputs">>

\* TypeofString that lets every input through
TypeofAnything(input) == TRUE

\* typeof input === 'string'
TypeofString(input) == input.kind = "text"

NoAgentCall ==
  [name |-> "none", input |-> [kind |-> "text", text |-> <<>>, chunks |-> <<>>,
                               mode |-> "absent"],
   conv |-> <<>>, vs |-> NoVs, pc |-> "idle", err |-> <<>>, text |-> <<>>]

\* agent.run({ conversationId, input, params: { vectorStoreIds } }) is called
NewAgentCall(name, input, conv, vs) ==
  [name |-> name, input |-> input, conv |-> conv, vs |-> vs, pc |-> "start",
   err |-> <<>>, text |-> <<>>]

SubIdle == agentCall = NoAgentCall

SubInit ==
  agentCall \in {NewAgentCall(n, i, c, v) :
                   n \in AgentNames, i \in SupInputs, c \in CallerConvs, v \in VsInputs}

\* the variables of supervisorAgent.run other than the log of calls
supVarsButLog == <<sin, svs, sconv, spc, chunkState, chunkText, transcripts, processed,
                   meta, routingConv, decision, routingText, sresult, serr, callResult>>

\* run up to its model call: the typeof check, for rag the vectorStoreIds
\* check, then openai.responses.create
AgentStart ==
  /\ agentCall.pc = "start"
  /\ LET c == agentCall
         lg == Append(log, AgentRun(AgentOp(c.name), c.conv, c.vs, c.input.text))
     IN IF ~TypeofString(c.input)
        THEN /\ agentCall' = [c EXCEPT !.pc = "failed",
                                !.err = IF c.name = "rag" THEN ErrRagNotString
                                        ELSE ErrDirectNotString]
             /\ log' = lg
        ELSE IF c.name = "rag" /\ ~HasStores(c.vs)
        THEN /\ agentCall' = [c EXCEPT !.pc = "failed", !.err = ErrRagNoStores]
             /\ log' = lg
        ELSE /\ agentCall' = [c EXCEPT !.pc = "generate"]
             /\ log' = Append(lg, GenerateStart(c.conv, IF c.name = "rag" THEN c.vs
                                                        ELSE NoVs))
  /\ UNCHANGED <<supVarsButLog, streamVars, svcVars, routeVars, accVars>>

\* the model call resolves: { conversationId, text: getOutputText(resp), raw }
AgentReturn ==
  /\ agentCall.pc = "generate"
  /\ agentCall' = [agentCall EXCEPT !.pc = "done", !.text = <<"o", "k">>]
  /\ log' = Append(log, GenerateEnd)
  /\ UNCHANGED <<supVarsButLog, streamVars, svcVars, routeVars, accVars>>

\* the model call rejects
AgentFail ==
  /\ agentCall.pc = "generate"
  /\ agentCall' = [agentCall EXCEPT !.pc = "failed", !.err = <<ErrProvider>>]
  /\ log' = Append(log, GenerateEnd)
  /\ UNCHANGED <<supVarsButLog, streamVars, svcVars, routeVars, accVars>>

NextAgent ==
  \/ AgentStart
  \/ AgentReturn
  \/ AgentFail

(***************************************************************************)
(* The single-shot handler, router.post("/supervisor").                    *)
(***************************************************************************)
SupervisorName == <<"s", "u", "p", "e", "r", "v", "i", "s", "o", "r">>
RagName == <<"r", "a", "g">>
DirectName == <<"d", "i", "r", "e", "c", "t">>

\* String.prototype.toLowerCase, on the letters that occur
LowerChar(c) ==
  CASE c = "R" -> "r"
    [] c = "A" -> "a"
    [] c = "G" -> "g"
    [] OTHER -> c

ToLowerCase(str) == [i \in DOMAIN str |-> LowerChar(str[i])]

\* getAgent(name): the agent, "unknown" where it throws
GetAgent(name) ==
  LET n == ToLowerCase(name)
  IN IF n = SupervisorName THEN "supervisor"
     ELSE IF n = RagName THEN "rag"
     ELSE IF n = DirectName THEN "direct"
     ELSE "unknown"

\* a body value is truthy
Truthy(v) == v.type # "undefined" /\ ~(v.type = "string" /\ v.str = <<>>)

\* body.input: absent, '', a text, or (JSON body) a number
RouteBodyInputs ==
  { Undefined, Str(<<>>), Str(<<"y", "o">>), [type |-> "number", str |-> <<"7">>] }

\* body.targetAgent
RouteTargets ==
  { Undefined, Str(DirectName), Str(RagName), Str(<<"R", "A", "G">>),
    Str(SupervisorName), Str(<<"w", "e", "b">>) }

\* the requests; the fields of a multipart body (with a file) are strings
RouteRequests ==
  { r \in [hasFile : BOOLEAN, input : RouteBodyInputs, conversationId : ConvIdInputs,
           targetAgent : RouteTargets, vectorStoreIds : VsInputs] :
      r.hasFile => (r.input.type # "number" /\ r.conversationId.type # "number") }

\* the uploaded file as an AudioInput: { type: 'audio', audioBuffer, mimeType }
FileInput ==
  [kind |-> "audio", text |-> <<>>, chunks |-> ChunkList(1), mode |-> "absent"]

\* a string as an agent input
TextInput(t) == [kind |-> "text", text |-> t, chunks |-> <<>>, mode |-> "absent"]

\* supervisorInput (lines 410-434), for a request that has a file or an input
SupervisorInput(r) ==
  IF r.hasFile THEN FileInput
  ELSE IF r.input.type = "string" THEN TextInput(r.input.str)
  ELSE [kind |-> "other", text |-> <<>>, chunks |-> <<>>, mode |-> "absent"]

NoResponse ==
  [status |-> 0, conversationId |-> <<>>, agent |-> <<>>, text |-> <<>>, error |-> ""]

\* res.status(code).json({ error })
ErrorResponse(code, msg) ==
  [status |-> code, conversationId |-> <<>>, agent |-> <<>>, text |-> <<>>, error |-> msg]

\* res.json({ conversationId: convId, agent: agentNameUsed, text, raw })
OkResponse(conv, agent, text) ==
  [status |-> 200, conversationId |-> conv, agent |-> agent, text |-> text, error |-> ""]

RouteInit ==
  /\ hreq \in RouteRequests
  /\ rpc = "start"
  /\ rconv = <<>>
  /\ agentNameUsed = <<>>
  /\ response = NoResponse

\* supervisorAgent.run({ conversationId: conv, input, params: { vectorStoreIds } })
\* is called
CallSupervisor(conv, input, vs) ==
  /\ sin' = input
  /\ svs' = vs
  /\ sconv' = conv
  /\ spc' = "start"
  /\ rpc' = "supervisor"
  /\ UNCHANGED <<chunkState, chunkText, transcripts, processed, meta, routingConv,
                 decision, routingText, sresult, serr, callResult, agentCall>>

\* agent.run(...) with the agent getAgent returned (lines 466-470)
CallAgent(agent, conv, input, vs) ==
  IF agent = "supervisor"
  THEN CallSupervisor(conv, input, vs)
  ELSE /\ agentCall' = NewAgentCall(agent, input, conv, vs)
       /\ rpc' = "agent"
       /\ UNCHANGED supVarsButLog

\* the handler up to its first await: convId, supervisorInput, and the
\* choice between the named agent and the supervisor
RouteBegin ==
  /\ rpc = "start"
  /\ LET conv == ResolveConvId(hreq.conversationId)
         target == hreq.targetAgent
         vs == hreq.vectorStoreIds
     IN /\ rconv' = conv
        /\ IF ~hreq.hasFile /\ ~Truthy(hreq.input)
           THEN /\ response' = ErrorResponse(400, "No input provided (text or audio)")
                /\ rpc' = "responded"
                /\ UNCHANGED <<agentNameUsed, supVars, subVars>>
           ELSE IF ~Truthy(target)
           THEN /\ agentNameUsed' = SupervisorName
                /\ CallSupervisor(conv, SupervisorInput(hreq), vs)
                /\ UNCHANGED <<response, log>>
           ELSE IF GetAgent(target.str) = "unknown"
           THEN /\ response' = ErrorResponse(400, "Unknown or failed agent")
                /\ rpc' = "responded"
                /\ UNCHANGED <<agentNameUsed, supVars, subVars>>
           ELSE IF hreq.hasFile
           THEN /\ agentNameUsed' = target.str
                /\ log' = Append(log, TranscribeStart(0, FileInput.chunks[1].audioBuffer,
                                                      FileInput.chunks[1].mimeType))
                /\ rpc' = "target_transcribe"
                /\ UNCHANGED <<response, supVarsButLog, subVars>>
           ELSE /\ agentNameUsed' = target.str
                /\ CallAgent(GetAgent(target.str), conv, SupervisorInput(hreq), vs)
                /\ UNCHANGED <<response, log>>
  /\ UNCHANGED <<hreq, streamVars, svcVars, accVars>>

\* realtimeAudio.transcribeAudio resolves: finalInput = transcript, whatever
\* it is, and the named agent is run on it
RouteTranscribeReturn ==
  /\ rpc = "target_transcribe"
  /\ \E t \in Transcripts :
       CallAgent(GetAgent(hreq.targetAgent.str), rconv, TextInput(t), hreq.vectorStoreIds)
  /\ log' = Append(log, TranscribeEnd(0))
  /\ UNCHANGED <<hreq, rconv, agentNameUsed, response, streamVars, svcVars, accVars>>

\* realtimeAudio.transcribeAudio rejects (lines 458-461)
RouteTranscribeFail ==
  /\ rpc = "target_transcribe"
  /\ log' = Append(log, TranscribeEnd(0))
  /\ response' = ErrorResponse(400, "Audio transcription failed")
  /\ rpc' = "responded"
  /\ UNCHANGED <<hreq, rconv, agentNameUsed, supVarsButLog, subVars, streamVars, svcVars, accVars>>

\* the named sub-agent returned: res.json(response)
RouteAgentDone ==
  /\ rpc = "agent" /\ agentCall.pc = "done"
  /\ response' = OkResponse(rconv, agentNameUsed, agentCall.text)
  /\ rpc' = "responded"
  /\ UNCHANGED <<hreq, rconv, agentNameUsed, supVars, subVars, streamVars, svcVars, accVars>>

\* the named sub-agent threw (lines 471-474)
RouteAgentFailed ==
  /\ rpc = "agent" /\ agentCall.pc = "failed"
  /\ response' = ErrorResponse(400, "Unknown or failed agent")
  /\ rpc' = "responded"
  /\ UNCHANGED <<hreq, rconv, agentNameUsed, supVars, subVars, streamVars, svcVars, accVars>>

\* supervisorAgent.run returned: res.json(response)
RouteSupervisorDone ==
  /\ rpc = "supervisor" /\ spc = "done"
  /\ response' = OkResponse(rconv, agentNameUsed, sresult.text)
  /\ rpc' = "responded"
  /\ UNCHANGED <<hreq, rconv, agentNameUsed, supVars, subVars, streamVars, svcVars, accVars>>

\* RouteSupervisorFailed that answers 500 whoever called the supervisor
RouteSupervisorFailedAlways500 ==
  /\ rpc = "supervisor" /\ spc = "failed"
  /\ response' = ErrorResponse(500, "Supervisor agent request failed")
  /\ rpc' = "responded"
  /\ UNCHANGED <<hreq, rconv, agentNameUsed, supVars, subVars, streamVars, svcVars, accVars>>

\* supervisorAgent.run threw: 400 from the catch at 471-474 if it was named
\* as targetAgent, 500 from the catch at 508-515 otherwise
RouteSupervisorFailed ==
  /\ rpc = "supervisor" /\ spc = "failed"
  /\ response' = IF Truthy(hreq.targetAgent)
                 THEN ErrorResponse(400, "Unknown or failed agent")
                 ELSE ErrorResponse(500, "Supervisor agent request failed")
  /\ rpc' = "responded"
  /\ UNCHANGED <<hreq, rconv, agentNameUsed, supVars, subVars, streamVars, svcVars, accVars>>

NextRoute ==
  \/ RouteBegin
  \/ RouteTranscribeReturn
  \/ RouteTranscribeFail
  \/ RouteAgentDone
  \/ RouteAgentFailed
  \/ RouteSupervisorDone
  \/ RouteSupervisorFailed
  \/ AgentStart
  \/ AgentReturn
  \/ AgentFail
  \/ StartText
  \/ StartUnsupported
  \/ StartSingleAudio
  \/ SingleDone
  \/ CreateConvReturn
  \/ CreateConvFail
  \/ ClassifyReturn
  \/ ClassifyFail
  \/ DispatchReturn
  \/ DispatchFail

\* no request to POST /agents/supervisor is in progress
RouteIdle ==
  /\ hreq = [hasFile |-> FALSE, input |-> Undefined, conversationId |-> Undefined,
             targetAgent |-> Undefined, vectorStoreIds |-> NoVs]
  /\ rpc = "idle"
  /\ rconv = <<>>
  /\ agentNameUsed = <<>>
  /\ response = NoResponse

(***************************************************************************)
(* RealtimeAudioService: startBatch, appendAudioChunk, commitBatch and a   *)
(* direct processTextWithContext, called on one instance by a client.      *)
(* A byte of a chunk is [gen, n]: the n-th append, made after the gen-th   *)
(* startBatch.  One commitBatch is in flight at a time; the other methods  *)
(* may be called while it awaits.                                          *)
(***************************************************************************)
BatchMimes == { "audio/webm", "audio/wav" }

BatchContexts ==
  { Context(<<"conv_a">>, NoVs), Context(<<"conv_b">>, [defined |-> TRUE, ids |-> <<"vs_1">>]) }

NoStart == [mimeType |-> NullMime, context |-> NullContext]

NoLocal == [audioBuffer |-> <<>>, mimeType |-> NullMime, context |-> NullContext]

\* the chunk of an append: an empty Buffer or one byte
ChunkInputs(g, n) == { <<>>, <<[gen |-> g, n |-> n]>> }

\* Buffer.concat(this.batchAudioBuffer)
RECURSIVE ConcatChunks(_)
ConcatChunks(cs) == IF cs = <<>> THEN <<>> ELSE Head(cs) \o ConcatChunks(Tail(cs))

\* StartBatchFields that keeps the chunks of the batch before
StartBatchKeepsBuffer(b, mimeType, context) ==
  [buffer |-> b.buffer, mimeType |-> mimeType, context |-> context]

\* startBatch, lines 419-421
StartBatchFields(b, mimeType, context) ==
  [buffer |-> <<>>, mimeType |-> mimeType, context |-> context]

\* NoBatch that looks at the buffer only
NoBatchBufferOnly(b) == Len(b.buffer) = 0

\* the guard of commitBatch, line 438
NoBatch(b) ==
  \/ Len(b.buffer) = 0
  \/ b.mimeType = NullMime
  \/ b.context.isNull

AccIdle ==
  /\ commitPc = "idle"
  /\ commitLocal = NoLocal
  /\ commitOutcome = "none"
  /\ textOutcome = "none"
  /\ accEvents = <<>>
  /\ issued = <<>>
  /\ batchGen = 0
  /\ lastStart = NoStart
  /\ appended = 0
  /\ ops = 0
  /\ lastOp = "none"
  /\ respStreams = <<>>

AccInit == AccIdle

CallMade(name) ==
  /\ ops < MaxOps
  /\ ops' = ops + 1
  /\ lastOp' = name

StartBatch ==
  \E mimeType \in BatchMimes, context \in BatchContexts :
    /\ CallMade("startBatch")
    /\ SetBatch(StartBatchFields(Batch, mimeType, context))
    /\ accEvents' = Append(accEvents, "batch_started")
    /\ batchGen' = batchGen + 1
    /\ lastStart' = [mimeType |-> mimeType, context |-> context]
    /\ UNCHANGED <<commitPc, commitLocal, commitOutcome, textOutcome, issued, appended>>
    /\ UNCHANGED respStreams
    /\ UNCHANGED nonAccVars

AppendAudioChunk ==
  \E chunk \in ChunkInputs(batchGen, appended + 1) :
    /\ CallMade("appendAudioChunk")
    /\ batchAudioBuffer' = Append(batchAudioBuffer, chunk)
    /\ accEvents' = Append(accEvents, "batch_chunk_appended")
    /\ appended' = appended + 1
    /\ UNCHANGED <<batchMimeType, batchContext>>
    /\ UNCHANGED <<commitPc, commitLocal, commitOutcome, textOutcome, issued, batchGen,
                   lastStart>>
    /\ UNCHANGED respStreams
    /\ UNCHANGED nonAccVars

\* commitBatch up to its first await, or its throw at line 439
CommitBatch ==
  /\ commitPc = "idle"
  /\ CallMade("commitBatch")
  /\ IF NoBatch(Batch)
       THEN /\ commitOutcome' = "rejected_nobatch"
            /\ UNCHANGED <<commitPc, commitLocal, issued>>
       ELSE /\ commitLocal' = [audioBuffer |-> ConcatChunks(batchAudioBuffer),
                               mimeType |-> batchMimeType, context |-> batchContext]
            /\ issued' = Append(issued,
                 [audioBuffer |-> commitLocal'.audioBuffer,
                  mimeType |-> commitLocal'.mimeType,
                  context |-> commitLocal'.context,
                  gen |-> batchGen, start |-> lastStart])
            /\ commitPc' = "transcribing"
            /\ commitOutcome' = "pending"
  /\ UNCHANGED <<textOutcome, accEvents, batchGen, lastStart, appended>>
  /\ UNCHANGED svcVars
  /\ UNCHANGED respStreams
  /\ UNCHANGED nonAccVars

\* lines 446-450: the transcript arrives, processTextWithContext is called
\* with the captured context and runs to its fetch
CommitTranscribed ==
  /\ commitPc = "transcribing"
  /\ \E t \in Transcripts : accEvents' = Append(accEvents, "transcription_completed")
  /\ SetBatch(BatchAfterText(Batch))
  /\ commitPc' = "fetching"
  /\ UNCHANGED <<commitLocal, commitOutcome, textOutcome, issued, batchGen, lastStart,
                 appended, ops, lastOp>>
  /\ UNCHANGED respStreams
  /\ UNCHANGED nonAccVars

\* transcribeAudio rejects: commitBatch rejects, the fields stay
CommitTranscribeFail ==
  /\ commitPc = "transcribing"
  /\ commitPc' = "idle"
  /\ commitOutcome' = "rejected_provider"
  /\ UNCHANGED <<commitLocal, textOutcome, accEvents, issued, batchGen, lastStart,
                 appended, ops, lastOp>>
  /\ UNCHANGED svcVars
  /\ UNCHANGED respStreams
  /\ UNCHANGED nonAccVars

\* lines 453-463: the response stream arrives, the fields are reset
CommitFetched ==
  /\ commitPc = "fetching"
  /\ respStreams' = Append(respStreams, [pc |-> "streaming", events |-> <<>>])
  /\ SetBatch(EmptyBatch)
  /\ commitPc' = "idle"
  /\ commitOutcome' = "resolved"
  /\ UNCHANGED <<commitLocal, textOutcome, accEvents, issued, batchGen, lastStart,
                 appended, ops, lastOp>>
  /\ UNCHANGED nonAccVars

\* processTextWithContext rejects: commitBatch rejects before its reset
CommitFetchFail ==
  /\ commitPc = "fetching"
  /\ commitPc' = "idle"
  /\ commitOutcome' = "rejected_provider"
  /\ UNCHANGED <<commitLocal, textOutcome, accEvents, issued, batchGen, lastStart,
                 appended, ops, lastOp>>
  /\ UNCHANGED svcVars
  /\ UNCHANGED respStreams
  /\ UNCHANGED nonAccVars

\* processTextWithContext called by the client; the fetch, whatever its
\* outcome, leaves the fields as lines 547-552 left them
DirectText ==
  /\ CallMade("processTextWithContext")
  /\ SetBatch(BatchAfterText(Batch))
  /\ \E o \in { "stream", "rejected" } : textOutcome' = o
  /\ UNCHANGED <<commitPc, commitLocal, commitOutcome, accEvents, issued, batchGen,
                 lastStart, appended>>
  /\ UNCHANGED respStreams
  /\ UNCHANGED nonAccVars

\* a second request in flight on the streaming endpoint reaches its call of
\* realtimeAudio.processTextWithContext (agents.ts 632); the
\* instance is the one every request uses (agents.ts 314-317)
ConcurrentText ==
  /\ ops < MaxConcurrent
  /\ DirectText

\* an event emitted by the loop over responseStream, with its place among
\* the events of the instance
StreamEvent(ev) == [ev |-> ev, at |-> Len(accEvents) + 1]

accVarsButEvents == <<commitPc, commitLocal, commitOutcome, textOutcome, issued, batchGen,
                      lastStart, appended, ops, lastOp>>

\* lines 454-456: the response stream of the k-th resolved commit yields a
\* chunk, which is emitted as streaming_response
StreamYield ==
  \E k \in DOMAIN respStreams :
    /\ respStreams[k].pc = "streaming"
    /\ Len(respStreams[k].events) < MaxYields
    /\ respStreams' = [respStreams EXCEPT
                         ![k].events = Append(@, StreamEvent("streaming_response"))]
    /\ accEvents' = Append(accEvents, "streaming_response")
    /\ UNCHANGED <<accVarsButEvents, svcVars, nonAccVars>>

\* the response stream throws (no body, reader.read() rejects): the for
\* await throws inside the async function of lines 453-458, whose promise
\* nobody holds; line 457 is not reached
StreamFail ==
  \E k \in DOMAIN respStreams :
    /\ respStreams[k].pc = "streaming"
    /\ respStreams' = [respStreams EXCEPT ![k].pc = "failed"]
    /\ UNCHANGED <<accEvents, accVarsButEvents, svcVars, nonAccVars>>

\* line 457: the response stream ended, streaming_response_done is emitted
StreamEnd ==
  \E k \in DOMAIN respStreams :
    /\ respStreams[k].pc = "streaming"
    /\ respStreams' = [respStreams EXCEPT
                         ![k].pc = "ended",
                         ![k].events = Append(@, StreamEvent("streaming_response_done"))]
    /\ accEvents' = Append(accEvents, "streaming_response_done")
    /\ UNCHANGED <<accVarsButEvents, svcVars, nonAccVars>>

NextAcc ==
  \/ StartBatch
  \/ AppendAudioChunk
  \/ CommitBatch
  \/ CommitTranscribed
  \/ CommitTranscribeFail
  \/ CommitFetched
  \/ CommitFetchFail
  \/ DirectText
  \/ StreamYield
  \/ StreamEnd
  \/ StreamFail

vars == <<streamVars, supVars, svcVars, subVars, routeVars, accVars>>

\* A streaming request is in progress, no supervisorAgent.run invocation is.
InitStream == StreamInit /\ SupIdle /\ SvcInit /\ SubIdle /\ RouteIdle /\ AccIdle

SpecStream == InitStream /\ [][NextStream]_vars

\* A supervisorAgent.run invocation is in progress, no streaming request is.
InitSup == StreamIdle /\ SupInit /\ SvcInit /\ SubIdle /\ RouteIdle /\ AccIdle

SpecSup == InitSup /\ [][NextSup]_vars

\* A sub-agent is invoked directly, with any input an AgentRunInput allows.
InitAgent == StreamIdle /\ SupIdle /\ SvcInit /\ SubInit /\ RouteIdle /\ AccIdle

SpecAgent == InitAgent /\ [][NextAgent]_vars

\* A request to POST /agents/supervisor is in progress.
InitRoute == StreamIdle /\ SupIdle /\ SvcInit /\ SubIdle /\ RouteInit /\ AccIdle

SpecRoute == InitRoute /\ [][NextRoute]_vars

\* A client drives the batch API of a RealtimeAudioService instance.
InitAcc == StreamIdle /\ SupIdle /\ SvcInit /\ SubIdle /\ RouteIdle /\ AccInit

SpecAcc == InitAcc /\ [][NextAcc]_vars

\* A request to one of the two endpoints is in progress.
InitEndpoints == InitStream \/ InitRoute

NextEndpoints == NextStream \/ NextRoute

SpecEndpoints == InitEndpoints /\ [][NextEndpoints]_vars

\* A request to one of the two endpoints is in progress while other requests
\* to the streaming endpoint are in flight.
InitConcurrent == InitEndpoints

NextConcurrent == NextEndpoints \/ ConcurrentText

SpecConcurrent == InitConcurrent /\ [][NextConcurrent]_vars

(***************************************************************************)
(* Properties of the streaming endpoint (checked under SpecStream).        *)
(***************************************************************************)
Count(evs, e) == Cardinality({i \in DOMAIN evs : evs[i] = e})
Occurs(evs, e) == \E i \in DOMAIN evs : evs[i] = e

\* conversation, text_delta*, final, done
IsTextSequence(evs) ==
  /\ Len(evs) >= 3
  /\ evs[1] = "conversation"
  /\ \A i \in 2..(Len(evs) - 2) : evs[i] = "text_delta"
  /\ evs[Len(evs) - 1] = "final"
  /\ evs[Len(evs)] = "done"

\* conversation, transcript, text_delta*, final, done
IsAudioSequence(evs) ==
  /\ Len(evs) >= 4
  /\ evs[1] = "conversation"
  /\ evs[2] = "transcript"
  /\ \A i \in 3..(Len(evs) - 2) : evs[i] = "text_delta"
  /\ evs[Len(evs) - 1] = "final"
  /\ evs[Len(evs)] = "done"

\* C1: a finished text request in which no stage failed has emitted exactly
\* conversation, zero or more text_delta, one final, one done, and no error.
C1_TextEventSequence ==
  (hpc = "ended" /\ ~req.hasFile /\ req.input # <<>> /\ failure = "none")
    => IsTextSequence(emitted)

\* C2: a finished audio request in which no stage failed has emitted exactly
\* conversation, transcript, zero or more text_delta, one final, one done.
C2_AudioEventSequence ==
  (hpc = "ended" /\ req.hasFile /\ failure = "none") => IsAudioSequence(emitted)

\* C3: error and done are exclusive terminal signals: at most one error, at
\* most one done, never both, and nothing is emitted after either of them.
C3_ErrorDoneExclusive ==
  /\ Count(emitted, "error") <= 1
  /\ Count(emitted, "done") <= 1
  /\ ~(Occurs(emitted, "error") /\ Occurs(emitted, "done"))
  /\ \A i \in DOMAIN emitted :
       emitted[i] \in {"error", "done"} => i = Len(emitted)

\* C3 witness: the provider stream failed after a text_delta had been sent.
C3_Witness ==
  /\ failure = "generation_stream"
  /\ Occurs(emitted, "text_delta")
  /\ emitted[Len(emitted)] = "error"
  /\ ended

\* C4: when transcription fails in a streaming audio request, exactly one
\* error is emitted and no transcript, final or done.
C4_TranscriptionFailure ==
  failure = "transcription" =>
    (hpc = "ended" =>
       /\ Count(emitted, "error") = 1
       /\ ~Occurs(emitted, "transcript")
       /\ ~Occurs(emitted, "final")
       /\ ~Occurs(emitted, "done"))

\* C4 witness: an audio request whose transcription failed has ended.
C4_Witness ==
  /\ req.hasFile
  /\ failure = "transcription"
  /\ hpc = "ended"
  /\ emitted = <<"conversation", "error">>

\* C5: a handler that has stopped has emitted exactly one terminal event
\* (error or done) and has ended the response.
C5_TerminalEvent ==
  hpc \in {"ended", "crashed"} =>
    /\ ended
    /\ Count(emitted, "error") + Count(emitted, "done") = 1

\* C6: once the caller has closed the transport, no write failure escapes
\* the handler, the initial padding write included.
C6_WriteFailureSwallowed ==
  ~transportOpen => hpc # "crashed"

(***************************************************************************)
(* Properties of supervisorAgent.run (checked under SpecSup).              *)
(***************************************************************************)
LogIdx(op, ph) == {i \in DOMAIN log : log[i].op = op /\ log[i].ph = ph}
DispatchOps == {"ragAgent.run", "directAgent.run", "generate"}

\* C7: every transcription call has completed before the disposable
\* conversation is requested and the classification call is issued, and the
\* classification call has completed before any sub-agent is dispatched.
C7_StageOrder ==
  /\ \A c \in LogIdx("createConversation", "start") \cup LogIdx("classify", "start") :
       /\ \A t \in DOMAIN log : log[t].op = "transcribe" => t < c
       /\ \A t \in LogIdx("transcribe", "start") :
            \E e \in LogIdx("transcribe", "end") : log[e].idx = log[t].idx /\ t < e /\ e < c
  /\ \A k \in LogIdx("classify", "start") :
       \E e \in LogIdx("createConversation", "end") : e < k
  /\ \A d \in DOMAIN log :
       log[d].op \in DispatchOps =>
         /\ \E e \in LogIdx("classify", "end") : e < d
         /\ \A k \in DOMAIN log : log[k].op \in {"classify", "createConversation"} => k < d

\* C7 witness: a parallel batch whose calls settled in reverse order was
\* classified and dispatched.
C7_Witness ==
  /\ sin.kind = "batch_audio" /\ sin.mode = "parallel" /\ Len(sin.chunks) >= 2
  /\ \E a, b \in LogIdx("transcribe", "end") : a < b /\ log[a].idx > log[b].idx
  /\ LogIdx("generate", "start") # {}

\* C8: whenever run dispatches to the retrieval-augmented sub-agent the
\* vectorStoreIds it forwards are non-empty.
C8_RagDispatchHasStores ==
  \A i \in DOMAIN log :
    log[i].op = "ragAgent.run" => (log[i].vs.defined /\ log[i].vs.ids # <<>>)

\* the classification output is not JSON, or fails the schema
Malformed(doc) ==
  \/ ~doc.wf
  \/ ~doc.obj
  \/ doc.route.t # "string"
  \/ doc.route.v \notin {"direct", "rag"}
  \/ doc.query.t # "string"

ClassificationReceived == routingText.route.t # "none"

\* C9: after a malformed classification output run raises no error and
\* dispatches on the heuristic decision: rag iff vectorStoreIds is
\* non-empty, query = the normalised text.
C9_MalformedFallsBack ==
  (ClassificationReceived /\ Malformed(routingText)) =>
    /\ decision.route = (IF svs.defined /\ svs.ids # <<>> THEN "rag" ELSE "direct")
    /\ decision.query = processed
    /\ LogIdx("generate", "start") # {}
    /\ serr \in {<<>>, <<ErrProvider>>}
    /\ (serr = <<ErrProvider>> => LogIdx("generate", "end") # {})

\* C9 witness: a malformed output with vector stores present ended in a
\* result from the retrieval-augmented agent.
C9_Witness ==
  /\ ClassificationReceived /\ Malformed(routingText)
  /\ svs.ids # <<>>
  /\ spc = "done"
  /\ sresult.routingDecision.route = "rag"

NormalizationErrors == {ErrUnsupported} \cup
  {<<w, e>> : w \in {AudioWrap, BatchWrap},
              e \in {ErrProvider, ErrEmptyTranscript, ErrNoChunks}}

\* C10 as stated: every invocation that has returned or failed has created
\* exactly one disposable conversation.
C10_ExactlyOneConversation ==
  spc \in {"done", "failed"} => Cardinality(LogIdx("createConversation", "start")) = 1

\* C10 amended: an invocation requests at most one disposable conversation:
\* exactly one once normalisation has succeeded, none when it failed.
C10_OneConversationAfterNormalize ==
  /\ Cardinality(LogIdx("createConversation", "start")) <= 1
  /\ (spc \in {"create_conv", "classify", "dispatch", "done"}
        => Cardinality(LogIdx("createConversation", "start")) = 1)
  /\ (spc = "failed" /\ serr \notin NormalizationErrors
        => Cardinality(LogIdx("createConversation", "start")) = 1)
  /\ (spc = "failed" /\ serr \in NormalizationErrors
        => Cardinality(LogIdx("createConversation", "start")) = 0)

\* C10 witness: a batch input routed to the retrieval-augmented agent and
\* answered, with one conversation created.
C10_Witness ==
  /\ spc = "done"
  /\ sin.kind = "batch_audio"
  /\ decision.route = "rag"
  /\ Cardinality(LogIdx("createConversation", "start")) = 1

\* C11: the classification call is sent on the disposable conversation and
\* not on the caller's; every sub-agent call is sent on the caller's and not
\* on the disposable one; the disposable id is named by no other call.
C11_ConversationSeparation ==
  /\ \A k \in LogIdx("classify", "start") :
       /\ routingConv # <<>>
       /\ log[k].conv = routingConv
       /\ log[k].conv # sconv
  /\ \A d \in DOMAIN log :
       (log[d].op \in DispatchOps /\ log[d].ph \in {"call", "start"}) =>
         /\ log[d].conv = sconv
         /\ log[d].conv # routingConv
  /\ Cardinality({i \in DOMAIN log : log[i].conv = SdkCreateConversation}) <= 1
  /\ (spc \in {"classify", "dispatch", "done"} =>
        Cardinality(LogIdx("classify", "start")) = 1)

\* C11 witness: an answered invocation whose classification went to the
\* disposable conversation and whose sub-agent call went to the caller's.
C11_Witness ==
  /\ spc = "done"
  /\ \E k \in LogIdx("classify", "start") :
       \E g \in LogIdx("generate", "start") :
         /\ k < g
         /\ log[k].conv = routingConv
         /\ log[g].conv = sconv
         /\ routingConv # sconv

\* C12: every generation call carries its request's conversation
\* identifier unchanged: the request of the streaming path (text and audio)
\* names the handler's convId, the sub-agents' calls name the caller's.
C12_ConversationCarried ==
  /\ genReq.sent => genReq.conversation = Str(convId)
  /\ \A g \in LogIdx("generate", "start") : log[g].conv = sconv

\* positions of an invocation inside processAudioInput / processBatchAudioInput
AudioPositions == {"single", "parallel", "merged", "sequential"}

\* C13: for a text input no transcription call is made and the batch path
\* is never entered, whatever the routing outcome.
C13_TextSkipsAudio ==
  sin.kind = "text" =>
    /\ \A i \in DOMAIN log : log[i].op # "transcribe"
    /\ spc \notin AudioPositions
    /\ \A i \in 1..MaxChunks : chunkState[i] = "idle"
    /\ transcripts = <<>>
    /\ meta.audioType \notin {"single", "batch"}
    /\ (spc \in {"create_conv", "classify", "dispatch", "done"} => processed = sin.text)
    /\ (serr # <<>> => serr[1] \notin {AudioWrap, BatchWrap})

\* C13 witness: a text input was classified as rag and answered.
C13_Witness ==
  /\ sin.kind = "text"
  /\ spc = "done"
  /\ decision.route = "rag"
  /\ sresult.text # <<>>
  /\ LogIdx("classify", "end") # {}

\* the text consists of white space only (or is empty)
OnlyWhiteSpace(t) == \A k \in DOMAIN t : t[k] \in WhiteSpace

\* C14: a single audio input whose transcription returned text that is empty
\* after trimming makes run fail with the empty-transcript error, which is
\* not the error of a failed transcription call; no disposable conversation
\* is requested, no classification and no sub-agent call is made.
C14_EmptyTranscriptFatal ==
  /\ (sin.kind = "audio" /\ callResult[1].st = "returned"
        /\ OnlyWhiteSpace(callResult[1].text)) =>
       /\ spc = "failed"
       /\ serr = <<AudioWrap, ErrEmptyTranscript>>
       /\ \A i \in DOMAIN log :
            log[i].op \notin {"createConversation", "classify"} \cup DispatchOps
  /\ (sin.kind = "audio" /\ callResult[1].st = "threw") =>
       /\ spc = "failed"
       /\ serr # <<AudioWrap, ErrEmptyTranscript>>

\* C14 witness: the transcription of a single audio input returned one
\* space and the invocation has failed.
C14_Witness ==
  /\ sin.kind = "audio"
  /\ callResult[1] = [st |-> "returned", text |-> <<SP>>]
  /\ spc = "failed"
  /\ log = <<TranscribeStart(1, sin.chunks[1].audioBuffer, sin.chunks[1].mimeType),
             TranscribeEnd(1)>>

\* the transcripts the calls 1..n returned that are not blank, by chunk index
RECURSIVE Survivors(_, _)
Survivors(j, n) ==
  IF j > n THEN <<>>
  ELSE (IF callResult[j].st = "returned" /\ ~OnlyWhiteSpace(callResult[j].text)
        THEN <<callResult[j].text>> ELSE <<>>) \o Survivors(j + 1, n)

IsBatch(mode) == sin.kind = "batch_audio" /\ ProcessingMode(sin.mode) = mode
BatchOver == spc \notin {"start", "parallel", "merged", "sequential"}

\* C15: in parallel mode, in whatever order the per-chunk calls settle, the
\* assembled transcript is the non-empty transcripts joined in the order of
\* the chunk indices.
C15_ParallelOrderIndependent ==
  (IsBatch("parallel") /\ BatchOver) =>
    /\ transcripts = Survivors(1, Len(sin.chunks))
    /\ (spc # "failed" \/ serr # <<BatchWrap, ErrNoChunks>>) =>
         processed = Trim(Join(Survivors(1, Len(sin.chunks))))

\* C15 witness: the call of chunk 2 settled before the call of chunk 1, both
\* with a word, and the transcript is "w1 w2".
C15_Witness ==
  /\ IsBatch("parallel") /\ BatchOver
  /\ \E a, b \in LogIdx("transcribe", "end") :
       a < b /\ log[a].idx = 2 /\ log[b].idx = 1
  /\ callResult[1].text = Word(1) /\ callResult[2].text = Word(2)
  /\ processed = Word(1) \o <<SP>> \o Word(2)

\* the transcription calls issued for chunk i
StartsOf(i) == {k \in LogIdx("transcribe", "start") : log[k].idx = i}

\* C16: in parallel mode exactly one transcription call is issued per chunk,
\* all of them before any settles; a call that fails leaves an empty
\* placeholder, fails nothing, and every other chunk's call still settles
\* and its transcript reaches the result.
C16_ParallelIsolation ==
  (IsBatch("parallel") /\ spc # "start") =>
    LET n == Len(sin.chunks)
    IN /\ \A i \in 1..n :
            /\ Cardinality(StartsOf(i)) = 1
            /\ \A k \in StartsOf(i) :
                 /\ log[k].buf = sin.chunks[i].audioBuffer
                 /\ log[k].mime = sin.chunks[i].mimeType
                 /\ \A e \in LogIdx("transcribe", "end") : k < e
       /\ Cardinality(LogIdx("transcribe", "start")) = n
       /\ \A i \in 1..n :
            callResult[i].st = "threw" =>
              /\ chunkText[i] = <<>>
              /\ serr # <<BatchWrap, ErrProvider>>
       /\ BatchOver =>
            \A i \in 1..n :
              /\ callResult[i].st # "none"
              /\ (callResult[i].st = "returned" /\ ~OnlyWhiteSpace(callResult[i].text)) =>
                   \E k \in DOMAIN transcripts : transcripts[k] = callResult[i].text

\* C16 witness: the call of chunk 1 failed first, the call of chunk 2 then
\* returned a word, and the invocation was answered on that word.
C16_Witness ==
  /\ IsBatch("parallel") /\ Len(sin.chunks) = 2
  /\ \E a, b \in LogIdx("transcribe", "end") :
       a < b /\ log[a].idx = 1 /\ log[b].idx = 2
  /\ callResult[1].st = "threw"
  /\ callResult[2] = [st |-> "returned", text |-> Word(2)]
  /\ processed = Word(2)
  /\ spc = "done"

\* C17: in sequential mode a chunk whose call fails or returns blank text
\* is skipped: it is not retried, no error surfaces from it, the next chunk
\* is still transcribed, and the result is the space-joined (trimmed)
\* non-empty transcripts in chunk order.
C17_SequentialSkips ==
  (IsBatch("sequential") /\ spc # "start") =>
    LET n == Len(sin.chunks)
    IN /\ \A i \in 1..n : Cardinality(StartsOf(i)) <= 1
       /\ Cardinality(LogIdx("transcribe", "start")) <= n
       /\ serr # <<BatchWrap, ErrProvider>>
       /\ \A i \in 1..n :
            callResult[i].st # "none" =>
              /\ i < n => Cardinality(StartsOf(i + 1)) = 1
              /\ i = n => BatchOver
       /\ BatchOver =>
            /\ \A i \in 1..n : Cardinality(StartsOf(i)) = 1 /\ callResult[i].st # "none"
            /\ transcripts = Survivors(1, n)
            /\ (serr # <<BatchWrap, ErrNoChunks>>
                  => processed = Trim(Join(Survivors(1, n))))
            /\ (serr = <<BatchWrap, ErrNoChunks>> => Survivors(1, n) = <<>>)

\* C17 witness: of three chunks the second failed, the first and the third
\* gave "w1" and "w3", and the invocation was answered on "w1 w3".
C17_Witness ==
  /\ IsBatch("sequential") /\ Len(sin.chunks) = 3
  /\ callResult[1] = [st |-> "returned", text |-> Word(1)]
  /\ callResult[2].st = "threw"
  /\ callResult[3] = [st |-> "returned", text |-> Word(3)]
  /\ processed = <<"w", "1", SP, "w", "3">>
  /\ spc = "done"

\* the number of bytes in the chunks before chunk i
RECURSIVE BytesBefore(_)
BytesBefore(i) ==
  IF i <= 1 THEN 0 ELSE BytesBefore(i - 1) + Len(sin.chunks[i - 1].audioBuffer)

\* C18: in merged mode with at least one chunk exactly one transcription
\* call is made; its buffer is the chunks' buffers one after the other in
\* chunk order, its length the sum of their lengths, and its MIME type that
\* of the first chunk.
C18_MergedSingleCall ==
  (IsBatch("merged") /\ Len(sin.chunks) > 0 /\ spc # "start") =>
    LET n == Len(sin.chunks)
    IN /\ Cardinality(LogIdx("transcribe", "start")) = 1
       /\ \A k \in LogIdx("transcribe", "start") :
            /\ Len(log[k].buf) = BytesBefore(n + 1)
            /\ \A i \in 1..n :
                 \A j \in 1..Len(sin.chunks[i].audioBuffer) :
                   log[k].buf[BytesBefore(i) + j] = sin.chunks[i].audioBuffer[j]
            /\ log[k].mime = sin.chunks[1].mimeType

\* C18 witness: three chunks of 1, 2 and 1 bytes were sent as one buffer of
\* 4 bytes under the first chunk's type, and the invocation was answered.
C18_Witness ==
  /\ IsBatch("merged") /\ Len(sin.chunks) = 3
  /\ Len(log) > 0
  /\ log[1].op = "transcribe" /\ log[1].ph = "start"
  /\ log[1].buf = <<1, 2, 2, 3>>
  /\ log[1].mime = "audio/webm"
  /\ sin.chunks[2].mimeType = "audio/wav"
  /\ spc = "done"

\* C19: in merged mode with an empty chunk list batch processing fails
\* with the no-chunks error and makes no transcription call (nor any other).
C19_MergedEmptyFails ==
  (IsBatch("merged") /\ Len(sin.chunks) = 0 /\ spc # "start") =>
    /\ spc = "failed"
    /\ serr = <<BatchWrap, ErrNoChunks>>
    /\ \A i \in DOMAIN log : log[i].op # "transcribe"
    /\ \A i \in 0..MaxChunks : callResult[i].st = "none"

\* C19 witness: a merged batch without chunks has failed, nothing was called.
C19_Witness ==
  /\ sin.kind = "batch_audio" /\ sin.mode = "merged" /\ sin.chunks = <<>>
  /\ spc = "failed"
  /\ serr = <<BatchWrap, ErrNoChunks>>
  /\ log = <<>>

\* the transcription calls a finished batch has made: the merged one (0)
\* if there was a chunk, else one per chunk
BatchCalls ==
  IF ProcessingMode(sin.mode) = "merged"
  THEN (IF Len(sin.chunks) > 0 THEN {0} ELSE {})
  ELSE 1..Len(sin.chunks)

\* the call failed or returned text that is empty after trimming
Unusable(c) == callResult[c].st = "threw" \/ OnlyWhiteSpace(callResult[c].text)

\* the non-empty transcripts of a finished batch, in order
BatchSurvivors ==
  IF ProcessingMode(sin.mode) = "merged"
  THEN Survivors(0, IF Len(sin.chunks) > 0 THEN 0 ELSE -1)
  ELSE Survivors(1, Len(sin.chunks))

\* C20: in every batch mode batch processing fails with the no-chunks error
\* exactly when every transcription call failed or returned text empty after
\* trimming; otherwise it returns a non-empty string, the trimmed
\* single-space join of the non-empty transcripts.
C20_NoChunksExactly ==
  (sin.kind = "batch_audio" /\ BatchOver) =>
    IF \A c \in BatchCalls : Unusable(c)
    THEN spc = "failed" /\ serr = <<BatchWrap, ErrNoChunks>>
    ELSE /\ serr \notin {<<BatchWrap, ErrNoChunks>>, <<BatchWrap, ErrProvider>>}
         /\ processed # <<>>
         /\ processed = Trim(Join(BatchSurvivors))

\* C21: ragAgent.run invoked with vectorStoreIds undefined or empty fails
\* with the missing-vector-stores error and makes no model call.
C21_RagWithoutStoresFails ==
  \A i \in DOMAIN log :
    (log[i].op = "ragAgent.run" /\ (~log[i].vs.defined \/ log[i].vs.ids = <<>>)) =>
      /\ i = Len(log)
      /\ LogIdx("generate", "start") = {}
      /\ spc = "failed"
      /\ serr = ErrRagNoStores

\* C21 witness: the classification chose rag while vectorStoreIds was the
\* empty array; ragAgent.run was invoked and failed.
C21_Witness ==
  /\ svs = [defined |-> TRUE, ids |-> <<>>]
  /\ decision.route = "rag"
  /\ Len(log) > 0 /\ log[Len(log)].op = "ragAgent.run"
  /\ spc = "failed"

\* C23: in every result of run, originalInputType is the variant of the
\* input and audioTranscription.audioProcessed is a boolean: false for a
\* text input, true for a single or batch audio input.
C23_ResultMetadata ==
  spc = "done" =>
    /\ sresult.originalInputType = sin.kind
    /\ sresult.originalInputType \in {"text", "audio", "batch_audio"}
    /\ sresult.audioTranscription.audioProcessed \in {"true", "false"}
    /\ sresult.audioTranscription.audioProcessed =
         (IF sin.kind = "text" THEN "false" ELSE "true")

(***************************************************************************)
(* Properties of the sub-agents invoked directly (checked under SpecAgent). *)
(***************************************************************************)
\* C22: a sub-agent given an input that is not text (single audio, batch
\* audio) fails with its invalid-input error before any model call, and no
\* transcription call is ever made by a sub-agent.
C22_SubAgentsRejectNonText ==
  /\ \A i \in DOMAIN log : log[i].op # "transcribe"
  /\ (agentCall.pc \notin {"idle", "start"} /\ agentCall.input.kind # "text") =>
       /\ agentCall.pc = "failed"
       /\ agentCall.name = "direct" => agentCall.err = ErrDirectNotString
       /\ agentCall.name = "rag" => agentCall.err = ErrRagNotString
       /\ \A i \in DOMAIN log : log[i].op # "generate"

\* C22 witness: ragAgent.run was given a batch of audio chunks, with vector
\* stores, and has failed on the input type.
C22_Witness ==
  /\ agentCall.name = "rag"
  /\ agentCall.input.kind = "batch_audio" /\ Len(agentCall.input.chunks) > 0
  /\ HasStores(agentCall.vs)
  /\ agentCall.pc = "failed"
  /\ log = <<AgentRun("ragAgent.run", agentCall.conv, agentCall.vs, agentCall.input.text)>>

(***************************************************************************)
(* Properties of the two endpoints (checked under SpecEndpoints).          *)
(***************************************************************************)
\* the value is a string that begins with conv_
HasConvPrefix(c) ==
  /\ c.type = "string"
  /\ Len(c.str) >= 5
  /\ \A k \in 1..5 : c.str[k] = ConvPrefix[k]

\* the id the rule of C24 gives for the supplied value c
ExpectedConv(c, id) ==
  IF HasConvPrefix(c) THEN id = c.str
  ELSE /\ id = RouteCreateConversation
       /\ HasConvPrefix(Str(id))
       /\ (c.type = "string" => id # c.str)

\* C24: in both endpoints the supplied conversationId is used unchanged iff
\* it is a string beginning with conv_, any other value is replaced by a
\* freshly minted conv_ id, and the id reported to the caller (conversation
\* event, JSON field) is the id handed on for the rest of the request.
C24_ConversationIdRule ==
  /\ hpc \notin {"idle", "start", "open", "crashed"} =>
       /\ ExpectedConv(req.conversationId, convId)
       /\ convEvent = convId
       /\ ~svcContext.isNull => svcContext.conversationId = convId
  /\ rpc \notin {"idle", "start"} =>
       /\ ExpectedConv(hreq.conversationId, rconv)
       /\ response.status = 200 => response.conversationId = rconv
       /\ rpc = "supervisor" => sconv = rconv
       /\ agentCall.pc # "idle" => agentCall.conv = rconv
       /\ \A i \in DOMAIN log :
            (log[i].op \in DispatchOps /\ log[i].ph \in {"call", "start"}) =>
              log[i].conv = rconv

\* C24 witness: a request whose conversationId was "xconv_" was answered
\* with status 200 under the minted id.
C24_Witness ==
  /\ hreq.conversationId = Str(<<"x">> \o ConvPrefix)
  /\ rpc = "responded"
  /\ response.status = 200
  /\ response.conversationId = RouteCreateConversation
  /\ LogIdx("generate", "start") # {}

(***************************************************************************)
(* Properties of the batch accumulator (checked under SpecAcc).            *)
(***************************************************************************)
\* the bytes of issued[i] all come from appends made after the startBatch
\* that was the most recent one when the call was issued
OnlyCurrentChunks(e) == \A k \in 1..Len(e.audioBuffer) : e.audioBuffer[k].gen = e.gen

\* C25: startBatch on an active batch never merges the two: every
\* transcription call commitBatch issues carries only chunks appended after
\* the most recent startBatch, with that startBatch's MIME type, and the
\* context it keeps for the text call is that startBatch's context.
C25_NoSilentMerge ==
  \A i \in 1..Len(issued) :
    /\ OnlyCurrentChunks(issued[i])
    /\ issued[i].mimeType = issued[i].start.mimeType
    /\ issued[i].context = issued[i].start.context

\* a second startBatch came while the first batch held a chunk, and the
\* commit after it was issued with the chunk appended since
C25_Witness ==
  /\ accEvents = <<"batch_started", "batch_chunk_appended", "batch_started",
                   "batch_chunk_appended">>
  /\ Len(issued) = 1
  /\ issued[1].gen = 2
  /\ issued[1].audioBuffer = <<[gen |-> 2, n |-> 2]>>

BlankForTarget ==
  /\ hreq.hasFile
  /\ Truthy(hreq.targetAgent)
  /\ rpc \in {"agent", "supervisor", "responded"}
  /\ IF GetAgent(hreq.targetAgent.str) = "supervisor"
     THEN sin.kind = "text" /\ OnlyWhiteSpace(sin.text)
     ELSE agentCall.name # "none" /\ OnlyWhiteSpace(agentCall.input.text)

\* supervisorAgent.run, called by the handler on the file, got a blank
\* transcript
BlankForSupervisor ==
  /\ hreq.hasFile
  /\ ~Truthy(hreq.targetAgent)
  /\ sin.kind = "audio"
  /\ callResult[1].st = "returned"
  /\ OnlyWhiteSpace(callResult[1].text)

\* C27: on every path of the two endpoints that transcribes the uploaded
\* file, a transcript that is blank after trimming ends the request in
\* failure: no model call is made with it, no done event and no HTTP 200
\* follows.
C27_BlankTranscriptFatalAtRoutes ==
  /\ (req.hasFile /\ genReq.sent) => ~OnlyWhiteSpace(genReq.input)
  /\ (req.hasFile /\ Occurs(emitted, "done")) => ~OnlyWhiteSpace(transcript)
  /\ (BlankForTarget \/ BlankForSupervisor) =>
       /\ \A i \in DOMAIN log : log[i].op \notin {"classify", "generate"}
       /\ response.status # 200

\* s.includes(t)
Includes(s, t) ==
  \E i \in 1..(Len(s) - Len(t) + 1) : SubSeq(s, i, i + Len(t) - 1) = t

\* C28: when a request carries a file and a text input, the text that goes
\* to the model holds the supplied input as well as the transcript, on both
\* endpoints.
C28_TextAndTranscriptCombined ==
  /\ (req.hasFile /\ req.input # <<>> /\ genReq.sent) =>
       /\ Includes(genReq.input, req.input)
       /\ Includes(genReq.input, transcript)
  /\ (hreq.hasFile /\ Truthy(hreq.input)) =>
       /\ agentCall.pc \in {"generate", "done"} =>
            Includes(agentCall.input.text, hreq.input.str)
       /\ (\E i \in DOMAIN log : log[i].op \in {"classify", "generate"}) =>
            (agentCall.name = "none" => Includes(processed, hreq.input.str))

\* the single-shot request names direct or rag: nothing of the supervisor's
\* routing is called, only the named agent runs, and a success reports it
TargetHandledSingleShot ==
  (Truthy(hreq.targetAgent) /\ GetAgent(hreq.targetAgent.str) \in AgentNames) =>
    /\ \A i \in DOMAIN log :
         /\ log[i].op \notin {"classify", "createConversation"}
         /\ log[i].ph = "call" => log[i].op = AgentOp(GetAgent(hreq.targetAgent.str))
    /\ response.status = 200 =>
         /\ agentCall.pc = "done"
         /\ agentCall.name = GetAgent(hreq.targetAgent.str)
         /\ GetAgent(response.agent) = agentCall.name

\* C29: a request that names a targetAgent is handled by that agent and by
\* nothing else, with no classification and no disposable conversation, and
\* the agent reported is the one that ran; on the streaming endpoint a
\* request that names rag is therefore never sent to the model without
\* vector stores, which ragAgent.run refuses.
C29_TargetAgentBypassesRouting ==
  /\ TargetHandledSingleShot
  /\ (Truthy(req.targetAgent) /\ GetAgent(req.targetAgent.str) = "rag" /\ genReq.sent) =>
       HasStores(genReq.tools)

(***************************************************************************)
(* Properties of processTextWithContext on an instance whose batch API is  *)
(* in use (checked under SpecAcc).                                         *)
(***************************************************************************)
\* the step is a call of processTextWithContext, by the client or by
\* commitBatch
TextCallStep ==
  \/ ops' # ops /\ lastOp' = "processTextWithContext"
  \/ commitPc = "transcribing" /\ commitPc' = "fetching"

\* C30: processTextWithContext leaves batchAudioBuffer, batchMimeType and
\* batchContext as it found them, also when a batch is active and holds
\* chunks.
C30_TextLeavesBatchAlone == [][TextCallStep => UNCHANGED svcVars]_vars

(***************************************************************************)
(* Further properties of supervisorAgent.run (checked under SpecSup).      *)
(***************************************************************************)
\* createConversation() settled and no classification call followed: it
\* rejected
ConvCallFailed ==
  LogIdx("createConversation", "end") # {} /\ LogIdx("classify", "start") = {}

\* the classification call settled without a response
ClassifyCallFailed == LogIdx("classify", "end") # {} /\ ~ClassificationReceived

\* C31: when the creation of the disposable conversation or the
\* classification call itself rejects, run fails with the provider's error,
\* no decision is taken (the heuristic is not applied) and no sub-agent is
\* called.
C31_FailedCallIsFatal ==
  (ConvCallFailed \/ ClassifyCallFailed) =>
    /\ spc = "failed"
    /\ serr = <<ErrProvider>>
    /\ decision = NoDecision
    /\ sresult = NoResult
    /\ \A i \in DOMAIN log : log[i].op \notin DispatchOps

\* the classification call of a text input rejected, vector stores present
C31_Witness ==
  /\ ClassifyCallFailed
  /\ sin.kind = "text"
  /\ HasStores(svs)
  /\ spc = "failed"

\* C32: an input that is neither a string nor tagged audio or batch_audio
\* makes run fail with the unsupported-input error; no transcription, no
\* conversation creation, no classification and no sub-agent call is made.
C32_UnsupportedInputNoCalls ==
  (sin.kind \notin {"text", "audio", "batch_audio"} /\ spc # "start") =>
    /\ spc = "failed"
    /\ serr = ErrUnsupported
    /\ log = <<>>
    /\ \A i \in 1..MaxChunks : callResult[i] = NoCall
    /\ routingConv = <<>>
    /\ sresult = NoResult

\* run has rejected an input of an unknown kind
C32_Witness ==
  /\ sin.kind = "other"
  /\ spc = "failed"
  /\ serr = ErrUnsupported

\* the sub-agent calls made by the invocation
AgentCalls == {i \in DOMAIN log : log[i].ph = "call"}

\* C33: an invocation that returned has called exactly one sub-agent, once:
\* the one its decision names, on the decision's query and the caller's
\* conversation; the decision is the one taken from the classification
\* output, and the result carries the caller's conversationId and that
\* decision.
C33_ExactlyOneDispatch ==
  spc = "done" =>
    /\ Cardinality(AgentCalls) = 1
    /\ decision = Decide(routingText, svs, processed)
    /\ \A i \in AgentCalls :
         /\ log[i].op = (IF decision.route = "rag" THEN "ragAgent.run"
                         ELSE "directAgent.run")
         /\ log[i].buf = decision.query
         /\ log[i].conv = sconv
    /\ sresult.conversationId = sconv
    /\ sresult.routingDecision = decision

\* a returned invocation whose classification chose rag with a query of
\* its own
C33_Witness ==
  /\ spc = "done"
  /\ decision = [route |-> "rag", query |-> <<"q">>]
  /\ processed # <<"q">>
  /\ sresult.routingDecision.route = "rag"

\* the batch is processed by the sequential loop (the default mode)
IsSequential ==
  sin.kind = "batch_audio" /\ ProcessingMode(sin.mode) \notin {"parallel", "merged"}

\* C34: in sequential mode at most one transcription call is in flight, the
\* calls are issued for chunks 1, 2, ... in that order, and the call of a
\* chunk is issued only after the call of the chunk before it has returned
\* or failed.
C34_SequentialOneAtATime ==
  IsSequential =>
    /\ Cardinality({i \in 1..MaxChunks : chunkState[i] = "inflight"}) <= 1
    /\ LET starts == LogIdx("transcribe", "start")
       IN /\ {log[a].idx : a \in starts} = 1..Cardinality(starts)
          /\ \A a \in starts, b \in starts :
               log[a].idx < log[b].idx =>
                 /\ a < b
                 /\ \E e \in LogIdx("transcribe", "end") :
                      log[e].idx = log[a].idx /\ e < b

\* the call of the first chunk failed and the call of the second is in
\* flight
C34_Witness ==
  /\ IsSequential
  /\ callResult[1].st = "threw"
  /\ chunkState[2] = "inflight"
  /\ Cardinality(LogIdx("transcribe", "start")) = 2

(***************************************************************************)
(* Further properties of the batch accumulator (checked under SpecAcc).    *)
(***************************************************************************)
\* a step of the commitBatch in flight
CommitStep == commitPc # "idle" /\ commitPc' # commitPc

\* startBatch has been called since the commitBatch in flight was issued
NewerBatch == Len(issued) > 0 /\ batchGen > issued[Len(issued)].gen

\* C35: a commitBatch resets only the batch it committed: a batch started
\* while the commit was suspended keeps its chunks, MIME type and context
\* through every step of that commit.
C35_CommitKeepsNewerBatch == [][(CommitStep /\ NewerBatch) => UNCHANGED svcVars]_vars

\* the step is a call of commitBatch by the client
CommitCallStep == ops' # ops /\ lastOp' = "commitBatch"

\* C36: commitBatch called when no batch was started, when the batch holds
\* no chunk, or after a commit that reset the fields, rejects at once: no
\* transcription or generation call is issued, no event is emitted, and the
\* three fields stay as they were.
C36_CommitWithoutBatchRejects ==
  [][(CommitCallStep /\ (Len(batchAudioBuffer) = 0 \/ batchMimeType = NullMime
                           \/ batchContext.isNull)) =>
       /\ commitOutcome' = "rejected_nobatch"
       /\ UNCHANGED <<svcVars, issued, accEvents, commitPc, commitLocal>>]_vars

\* commitBatch was called on a started batch without chunks and rejected
C36_Witness ==
  /\ lastOp = "commitBatch"
  /\ commitOutcome = "rejected_nobatch"
  /\ batchMimeType # NullMime
  /\ batchAudioBuffer = <<>>
  /\ issued = <<>>

\* the events of the k-th resolved commit come after its
\* transcription_completed, and nothing follows its streaming_response_done
OrderedEvents(k) ==
  LET es == respStreams[k].events
  IN /\ \A j \in DOMAIN es :
          /\ Cardinality({i \in 1..(es[j].at - 1) :
                            accEvents[i] = "transcription_completed"}) >= k
          /\ es[j].ev = "streaming_response_done" => j = Len(es)
          /\ j < Len(es) => es[j].at < es[j + 1].at

\* the loop over the response stream of the k-th resolved commit is over
\* and streaming_response_done was its last event
ClosedWithDone(k) ==
  LET es == respStreams[k].events
  IN respStreams[k].pc # "streaming" =>
       Len(es) > 0 /\ es[Len(es)].ev = "streaming_response_done"

\* C37: for every commitBatch that resolved, the instance emits
\* transcription_completed, then streaming_response events, then one
\* streaming_response_done after which no streaming_response follows; the
\* loop over the response stream never ends without
\* streaming_response_done, also when the stream fails part-way.
C37_StreamingEventsClosed ==
  \A k \in DOMAIN respStreams : OrderedEvents(k) /\ ClosedWithDone(k)

(***************************************************************************)
(* Properties of parseStreamingResponse (checked under SpecStream).        *)
(***************************************************************************)
\* the complete lines of a text, without their newline, in order
RECURSIVE CompleteLines(_)
CompleteLines(text) ==
  LET idx == IndexOfLF(text)
  IN IF idx = 0 THEN <<>>
     ELSE <<SubSeq(text, 1, idx - 1)>> \o CompleteLines(SliceFrom(text, idx))

\* the payload of a line that is a data line, <<"-">> for any other line
PayloadOf(rawLine) ==
  LET line == Trim(rawLine)
  IN IF StartsWith(line, DataPrefix) THEN SubSeq(line, 7, Len(line)) ELSE <<"-">>

\* the events that the data lines ls stand for, up to the marker
RECURSIVE EventsBeforeDone(_)
EventsBeforeDone(ls) ==
  IF ls = <<>> \/ PayloadOf(Head(ls)) = DoneMark THEN <<>>
  ELSE (IF PayloadOf(Head(ls)) = <<"Jd">> THEN <<"text_delta">>
        ELSE IF PayloadOf(Head(ls)) = <<"Jm">> THEN <<"final">>
        ELSE <<>>) \o EventsBeforeDone(Tail(ls))

\* the marker is among the complete lines received
DoneReceived ==
  \E i \in DOMAIN CompleteLines(received) :
    PayloadOf(CompleteLines(received)[i]) = DoneMark

\* the events the generator has yielded, as the handler passed them on
Yielded == SelectSeq(emitted, LAMBDA e : e \in {"text_delta", "final"})

\* the generator has dealt with everything it has read
CaughtUp == gen = "done" \/ (gen = "reading" /\ IndexOfLF(buffer) = 0)

\* C38: the parser yields one event per complete data line received before
\* the [DONE] marker, in the order of arrival, and nothing else: nothing
\* for what follows the marker, at which it returns, and nothing for a data
\* line that is not JSON, which neither stops the stream nor raises.
C38_ParserYields ==
  LET expected == EventsBeforeDone(CompleteLines(received))
  IN /\ Len(Yielded) <= Len(expected)
     /\ Yielded = SubSeq(expected, 1, Len(Yielded))
     /\ CaughtUp => Yielded = expected
     /\ (gen = "reading" /\ IndexOfLF(buffer) = 0) => ~DoneReceived
     /\ (gen = "done" /\ DoneReceived) => failure = "none"

\* a data line that is not JSON, then the marker with data after it in
\* the same chunk: one event was yielded for neither, the stream is over
C38_Witness ==
  /\ received = DataLine(<<"Jx">>) \o DataLine(DoneMark) \o DataLine(<<"Jm">>)
  /\ gen = "done"
  /\ Yielded = <<>>
  /\ emitted[Len(emitted)] = "done"

(***************************************************************************)
(* Properties of the single-shot endpoint (checked under SpecRoute).       *)
(***************************************************************************)
\* the request carries neither a file nor a text
NoInput == ~hreq.hasFile /\ ~Truthy(hreq.input)

\* the agent the request names has run and returned
NamedAgentReturned ==
  /\ Truthy(hreq.targetAgent)
  /\ IF GetAgent(hreq.targetAgent.str) = "supervisor" THEN spc = "done"
     ELSE /\ GetAgent(hreq.targetAgent.str) \in AgentNames
          /\ agentCall.pc = "done"

\* the status the handler owes the request, given how its calls ended
OwedStatus ==
  IF NoInput THEN 400
  ELSE IF Truthy(hreq.targetAgent) THEN (IF NamedAgentReturned THEN 200 ELSE 400)
  ELSE IF spc = "done" THEN 200 ELSE 500

\* what a handler that has answered has answered
AnsweredAsOwed ==
  /\ (rpc = "responded") = (response # NoResponse)
  /\ rpc = "responded" =>
       /\ response.status = OwedStatus
       /\ NoInput => (log = <<>> /\ agentCall = NoAgentCall /\ spc = "idle")
       /\ response.status = 200 =>
            /\ response.conversationId = rconv
            /\ response.text = (IF spc = "done" THEN sresult.text ELSE agentCall.text)

\* C39: the single-shot handler answers every request once: 400 when the
\* request has neither text nor file (and then no agent is called), 400
\* when the agent it names is unknown, fails, or its file cannot be
\* transcribed, 500 when the supervisor it did not name fails, 200 with
\* the agent's text when every call returned; a response sent is never
\* followed by another.
C39_OneResponsePerRequest ==
  /\ []AnsweredAsOwed
  /\ [][response # NoResponse => response' = response]_vars

\* the supervisor, named as targetAgent, failed and the request was
\* answered 400
C39_Witness ==
  /\ rpc = "responded"
  /\ Truthy(hreq.targetAgent)
  /\ GetAgent(hreq.targetAgent.str) = "supervisor"
  /\ spc = "failed"
  /\ response.status = 400

(***************************************************************************)
(* The streaming request without input (checked under SpecStream).         *)
(***************************************************************************)
\* the streaming request carries neither a file nor a non-empty text
StreamNoInput == hpc # "idle" /\ ~req.hasFile /\ req.input = <<>>

\* C40: a streaming request with neither a file nor a non-empty text emits
\* conversation and then error and nothing else by the time its handler
\* has finished, never reaches the transcription or the model call, and
\* never emits done.
C40_NoInputConversationThenError ==
  StreamNoInput =>
    /\ hpc \in {"start", "open", "ended", "crashed"}
    /\ hpc = "ended" => emitted = <<"conversation", "error">>
    /\ hpc # "ended" => emitted = <<>>
    /\ ~genReq.sent
    /\ transcript = <<>>
    /\ ~Occurs(emitted, "done")

\* a request without input has been answered and its handler has finished
C40_Witness ==
  /\ StreamNoInput
  /\ hpc = "ended"
  /\ failure = "no_input"
  /\ emitted = <<"conversation", "error">>
  /\ ended

============================================================================
